---- MODULE Spec2Model ----
(***************************************************************************)
(* A model of monom: a document instance of a MongoModel with its          *)
(* mutation tracker and persistence state (specification Spec), and the    *)
(* index reconciliation of a model class (specification SpecIdx).          *)
(*                                                                         *)
(* The document schema is the one of tests/test_model.py                   *)
(* (TestTrackFieldModify):                                                 *)
(*     class SubModel(EmbeddedModel):  f1: str                             *)
(*     class MainModel(Model):         f1: str                             *)
(*                                     f2: SubModel                        *)
(* Dotted paths ('f2.f1') are sequences of segments (<<"f2", "f1">>);      *)
(* field names are identifiers, so joining with '.' and splitting on '.'   *)
(* lose nothing.                                                           *)
(***************************************************************************)
EXTENDS Integers, Sequences, FiniteSets, TLC

\* Number of distinct valid string values a field is given.
NumStr == 2

\* Largest number of entries of a declared index list (Meta.indexes).
MaxDeclared == 2

\* Number of distinct TTL values (expireAfterSeconds) of an index.
NumTtl == 2

VARIABLES
    state,        \* MongoModel._state
    data,         \* BaseModel._data of the root instance (an ordered dict)
    inst,         \* tracker sets and cached nested instances of the root
    op,           \* the last operation called on the instance
    err,          \* the exception the last operation raised, or "none"
    call,         \* the store call the last operation sent, or NoCall
    tick,         \* parity of the number of operations called so far
    meta_indexes, \* Meta.indexes of the model class
    store_indexes,\* the indexes of the collection in the store
    idx_calls,    \* the store mutations issued by the last _build_indexes
    idx_err,      \* the exception the last _build_indexes raised, or "none"
    runs,         \* number of _build_indexes runs so far
    cv_model,     \* the model class that data is converted for
    cv_raw,       \* the keyword arguments the model class is called with
    cv_data,      \* _data of the instance built from them, Missing if none
    cv_clean,     \* what the last _get_clean_data returned, Missing if none
    cv_op,        \* the last conversion operation and its arguments
    cv_err,       \* the exception the last conversion operation raised
    cv_n,         \* number of conversion operations so far
    mt_aliases,   \* Meta.aliases of a model class that is being defined
    mt_name,      \* Field.name of every declared field of that class
    mt_err,       \* the exception the class definition raised, or "none"
    mt_done,      \* whether the class definition was executed
    pt_name,      \* the dot notation given to _parse_dot_notation
    pt_field,     \* the field _parse_dot_notation returned
    pt_err,       \* the exception _parse_dot_notation raised, or "none"
    pt_warn,      \* the warnings _parse_dot_notation logged
    pt_done,      \* whether _parse_dot_notation was called
    up_cls,       \* the model class update_one is called on
    up_update,    \* the update document given to update_one
    up_bypass,    \* bypass_document_validation
    up_err,       \* the exception update_one raised, or "none"
    up_warn,      \* the warnings update_one logged
    up_call,      \* the update handed to the collection, or Missing
    up_done,      \* whether update_one was called
    wr_op,        \* the insert or replace method called on the model class
    wr_docs,      \* the documents given to it
    wr_bypass,    \* bypass_document_validation
    wr_err,       \* the exception the method raised, or "none"
    wr_call,      \* the call handed to the collection, or Missing
    wr_done,      \* whether the method was called
    sw_db,        \* Model._db
    sw_coll,      \* Model._collection, Missing while none is bound
    sw_stack,     \* the switch_db / switch_collection blocks that are open
    sw_op,        \* the last statement executed and what it returned
    sw_err,       \* the exception the last statement raised, or "none"
    lg_logger,    \* utils._logger
    lg_handlers,  \* number of handlers of logging.getLogger('monom')
    lg_lock,      \* the thread that holds utils._lock, 0 if none
    lg_pc,        \* where each thread is in get_logger / set_logger
    lg_ret,       \* what the last get_logger() of each thread returned
    lg_calls      \* number of calls each thread has made

docvars == <<state, data, inst, op, err, call, tick>>
idxvars == <<meta_indexes, store_indexes, idx_calls, idx_err, runs>>
convvars == <<cv_model, cv_raw, cv_data, cv_clean, cv_op, cv_err, cv_n>>
metavars == <<mt_aliases, mt_name, mt_err, mt_done>>
pathvars == <<pt_name, pt_field, pt_err, pt_warn, pt_done>>
updvars == <<up_cls, up_update, up_bypass, up_err, up_warn, up_call, up_done>>
wrvars == <<wr_op, wr_docs, wr_bypass, wr_err, wr_call, wr_done>>
swvars == <<sw_db, sw_coll, sw_stack, sw_op, sw_err>>
logvars == <<lg_logger, lg_handlers, lg_lock, lg_pc, lg_ret, lg_calls>>
vars == <<state, data, inst, op, err, call, tick,
          meta_indexes, store_indexes, idx_calls, idx_err, runs,
          cv_model, cv_raw, cv_data, cv_clean, cv_op, cv_err, cv_n,
          mt_aliases, mt_name, mt_err, mt_done,
          pt_name, pt_field, pt_err, pt_warn, pt_done,
          up_cls, up_update, up_bypass, up_err, up_warn, up_call, up_done,
          wr_op, wr_docs, wr_bypass, wr_err, wr_call, wr_done,
          sw_db, sw_coll, sw_stack, sw_op, sw_err,
          lg_logger, lg_handlers, lg_lock, lg_pc, lg_ret, lg_calls>>

----------------------------------------------------------------------------
\* Values

Missing == [t |-> "missing", v |-> 0]
Str(i) == [t |-> "str", v |-> i]
Num(i) == [t |-> "int", v |-> i]
Oid(i) == [t |-> "oid", v |-> i]
\* An ordered dict: a sequence of items [k |-> key, v |-> value].
Dict(items) == [t |-> "dict", v |-> items]
Item(k, x) == [k |-> k, v |-> x]

Strs == {Str(i) : i \in 1..NumStr}

Keys(d) == {d.v[i].k : i \in 1..Len(d.v)}
Has(d, k) == k \in Keys(d)
Get(d, k) == LET i == CHOOSE j \in 1..Len(d.v) : d.v[j].k = k IN d.v[i].v
\* d[k] = x: an existing key keeps its position, a new key goes to the end.
Put(d, k, x) ==
    IF Has(d, k)
    THEN Dict([i \in 1..Len(d.v) |-> IF d.v[i].k = k THEN Item(k, x) ELSE d.v[i]])
    ELSE Dict(Append(d.v, Item(k, x)))
\* d.pop(k, None)
Pop(d, k) == Dict(SelectSeq(d.v, LAMBDA it : it.k # k))

----------------------------------------------------------------------------
\* Schema
\*
\* Besides MainModel / SubModel, the schemas that conversion is checked on:
\*     class ConvSub(EmbeddedModel):   f: str       (converter: x.upper())
\*     class ConvMain(BaseModel):      f1: str      (converter: x.upper())
\*                                     f2: ConvSub
\*                                     f3: List[ConvSub]
\* (tests/test_model.py, test_field_converters) and
\*     class AliasSub(EmbeddedModel):  f1: int      (alias '1f')
\*     class AliasMain(BaseModel):     f1: int = 5  (alias '1f')
\*                                     f2: AliasSub (alias '2f')
\*                                     f3: str
\* (after tests/test_model.py, TestFieldAliases).
\*
\* The schemas that dot notations and update documents are checked on
\* (tests/test_mongo.py; of Post the fields that updates address):
\*     class SubDotNotationModel(EmbeddedModel):
\*         f1: str;  f2: List[int];  f3: list;  f4: dict;  f5: Any
\*     class MainDotNotationModel(Model):
\*         f1: str;  f2: SubDotNotationModel;  f3: List[SubDotNotationModel]
\*         f4: dict;  f5: list;  f6: Any;  f7: List[List[SubDotNotationModel]]
\*     class User(EmbeddedModel):
\*         first_name: str;  last_name: str;  motto: str = 'come on'
\*     class Comment(EmbeddedModel):
\*         user: User;  content: str;  extra: int = 42
\*     class Post(Model):
\*         user: User;  title: str;  comments: List[Comment]
\*         tags: List[str];  created_on: datetime = datetime.utcnow

field_order(model) ==
    CASE model = "MainModel" -> <<"f1", "f2">>
      [] model = "SubModel" -> <<"f1">>
      [] model = "ConvMain" -> <<"f1", "f2", "f3">>
      [] model = "ConvSub" -> <<"f">>
      [] model = "AliasMain" -> <<"f1", "f2", "f3">>
      [] model = "AliasSub" -> <<"f1">>
      [] model = "SubDotNotationModel" -> <<"f1", "f2", "f3", "f4", "f5">>
      [] model = "MainDotNotationModel" ->
            <<"f1", "f2", "f3", "f4", "f5", "f6", "f7">>
      [] model = "User" -> <<"first_name", "last_name", "motto">>
      [] model = "Comment" -> <<"user", "content", "extra">>
      [] model = "Post" -> <<"user", "title", "comments", "tags", "created_on">>

FieldNames(model) == {field_order(model)[i] : i \in 1..Len(field_order(model))}

\* The field class that the type hint of a field is converted to.
hint_to_field(model, name) ==
    CASE model = "MainModel" /\ name = "f2" -> "EmbeddedField"
      [] model = "ConvMain" /\ name = "f2" -> "EmbeddedField"
      [] model = "ConvMain" /\ name = "f3" -> "ArrayField"
      [] model = "AliasMain" /\ name = "f1" -> "IntField"
      [] model = "AliasMain" /\ name = "f2" -> "EmbeddedField"
      [] model = "AliasSub" -> "IntField"
      [] model = "SubDotNotationModel" /\ name = "f2" -> "ArrayField"
      [] model = "SubDotNotationModel" /\ name = "f3" -> "ListField"
      [] model = "SubDotNotationModel" /\ name = "f4" -> "DictField"
      [] model = "SubDotNotationModel" /\ name = "f5" -> "AnyField"
      [] model = "MainDotNotationModel" /\ name = "f2" -> "EmbeddedField"
      [] model = "MainDotNotationModel" /\ name \in {"f3", "f7"} -> "ArrayField"
      [] model = "MainDotNotationModel" /\ name = "f4" -> "DictField"
      [] model = "MainDotNotationModel" /\ name = "f5" -> "ListField"
      [] model = "MainDotNotationModel" /\ name = "f6" -> "AnyField"
      [] model \in {"Comment", "Post"} /\ name = "user" -> "EmbeddedField"
      [] model = "Comment" /\ name = "extra" -> "IntField"
      [] model = "Post" /\ name \in {"comments", "tags"} -> "ArrayField"
      [] model = "Post" /\ name = "created_on" -> "DateTimeField"
      [] OTHER -> "StringField"

\* The embedded model of an EmbeddedField.
FieldModel(model, name) ==
    CASE model = "ConvMain" -> "ConvSub"
      [] model = "AliasMain" -> "AliasSub"
      [] model = "MainDotNotationModel" -> "SubDotNotationModel"
      [] model \in {"Comment", "Post"} -> "User"
      [] OTHER -> "SubModel"

expected_types(kind) ==
    CASE kind = "StringField" -> {"str"}
      [] kind = "IntField" -> {"int"}
      [] kind \in {"NumberField"} -> {"int", "float"}
      [] kind \in {"DictField", "EmbeddedField"} -> {"dict"}
      [] kind \in {"ListField", "ArrayField"} -> {"list"}
      [] kind = "DateTimeField" -> {"datetime"}
      [] kind = "AnyField" ->
            {"str", "int", "float", "dict", "list", "datetime", "oid", "model"}

\* Meta.aliases of a model: (field name, alias) pairs.
Alias(field, alias) == [field |-> field, alias |-> alias]

meta_aliases(model) ==
    CASE model = "AliasMain" -> <<Alias("f1", "1f"), Alias("f2", "2f")>>
      [] model = "AliasSub" -> <<Alias("f1", "1f")>>
      [] OTHER -> <<>>

\* The alias part of ModelType._process_meta on the declared fields (a
\* sequence of names) and Meta.aliases:
\*     [err |-> the exception raised, name |-> Field.name of every field]
\* A later pair of the list overwrites the name an earlier pair has set.
process_meta(field_names, aliases) ==
    LET fields == {field_names[i] : i \in 1..Len(field_names)}
        targets == {aliases[i].alias : i \in 1..Len(aliases)}
        last(f) == CHOOSE i \in 1..Len(aliases) :
                       /\ aliases[i].field = f
                       /\ \A j \in (i + 1)..Len(aliases) : aliases[j].field # f
        unset == [f \in fields |-> f]
    IN IF Len(aliases) # Cardinality(targets)
       THEN [err |-> "ValueError", name |-> unset]
       ELSE IF \E i \in 1..Len(aliases) : aliases[i].field \notin fields
       THEN [err |-> "ValueError", name |-> unset]
       ELSE [err |-> "none",
             name |-> [f \in fields |->
                          IF \E i \in 1..Len(aliases) : aliases[i].field = f
                          THEN aliases[last(f)].alias ELSE f]]

\* Field.name: the key of the field in the clean data and in the instance's
\* cache of nested instances.
field_name(model, name) ==
    IF meta_aliases(model) = <<>> THEN name
    ELSE process_meta(field_order(model), meta_aliases(model)).name[name]

\* Field.default: the class attribute of the field's name, or Missing.
field_default(model, name) ==
    CASE model = "AliasMain" /\ name = "f1" -> [t |-> "int", v |-> 5]
      [] model = "User" /\ name = "motto" -> [t |-> "str", v |-> 99]
      [] model = "Comment" /\ name = "extra" -> [t |-> "int", v |-> 42]
      [] model = "Post" /\ name = "created_on" -> [t |-> "datetime", v |-> 1]
      [] OTHER -> Missing

\* Field.converter (Meta.converters), or "none".
field_converter(model, name) ==
    IF (model = "ConvMain" /\ name = "f1") \/ model = "ConvSub"
    THEN "upper" ELSE "none"

\* A field object: its class and its attributes; model is the embedded
\* model of an EmbeddedField, field the item field of an ArrayField.
NewField(cls) ==
    [cls |-> cls, name |-> "", required |-> FALSE, default |-> Missing,
     converter |-> "none", model |-> "", field |-> <<>>]

\* EmbeddedField(embedded_model)
NewEmbeddedField(model) == [NewField("EmbeddedField") EXCEPT !.model = model]

\* ArrayField(field)
NewArrayField(field) == [NewField("ArrayField") EXCEPT !.field = field]

\* The item field of an ArrayField: _hint_to_field(arg) of List[arg].
item_field(model, name) ==
    CASE model = "ConvMain" /\ name = "f3" -> NewEmbeddedField("ConvSub")
      [] model = "SubDotNotationModel" /\ name = "f2" -> NewField("IntField")
      [] model = "MainDotNotationModel" /\ name = "f3" ->
            NewEmbeddedField("SubDotNotationModel")
      [] model = "MainDotNotationModel" /\ name = "f7" ->
            NewArrayField(NewEmbeddedField("SubDotNotationModel"))
      [] model = "Post" /\ name = "comments" -> NewEmbeddedField("Comment")
      [] model = "Post" /\ name = "tags" -> NewField("StringField")
      [] OTHER -> <<>>

\* The model classes of the schema.
Models ==
    {"MainModel", "SubModel", "ConvMain", "ConvSub", "AliasMain", "AliasSub",
     "SubDotNotationModel", "MainDotNotationModel", "User", "Comment", "Post"}

\* The field that ModelType.__new__ builds for one annotated name.
new_field(model, name) ==
    [cls |-> hint_to_field(model, name),
     name |-> field_name(model, name),
     required |-> FALSE,
     default |-> field_default(model, name),
     converter |-> field_converter(model, name),
     model |-> IF hint_to_field(model, name) = "EmbeddedField"
               THEN FieldModel(model, name) ELSE "",
     field |-> item_field(model, name)]

\* model.__fields__ of every model class: built once, at class definition.
model_fields ==
    [model \in Models |-> [name \in FieldNames(model) |-> new_field(model, name)]]

\* getattr(model, name): the field a model class holds under a name.
FieldOf(model, name) == model_fields[model][name]

\* EmbeddedField().init_root(cls)
RootField(model) == NewEmbeddedField(model)

----------------------------------------------------------------------------
\* Field.convert / Field.validate and their overrides in EmbeddedField and
\* ArrayField

\* A list value, an instance of an embedded model with its clean data, the
\* clean data that EmbeddedField.convert marks with _skip_validate, and the
\* exception a conversion raises.
List(items) == [t |-> "list", v |-> items]
ModelInstance(model, d) == [t |-> "model", model |-> model, data |-> d]
SkipValidate(d) == [t |-> "dict", v |-> d.v, skip |-> TRUE]
Raise(e) == [t |-> "raise", v |-> e]
IsRaise(x) == x.t = "raise"

\* str.upper(): the strings 1..NumStr are in lower case, the upper case of
\* string i is string UpperCase + i.
UpperCase == 100
upper(x) == IF x.v < UpperCase THEN Str(x.v + UpperCase) ELSE x

\* self.converter(value)
apply_converter(converter, value) ==
    IF value.t = "str" THEN upper(value) ELSE Raise("AttributeError")

\* Field.convert
FieldConvert(field, value) ==
    LET given == IF value = Missing /\ field.default # Missing
                 THEN field.default ELSE value
    IN IF given # Missing /\ field.converter # "none"
       THEN apply_converter(field.converter, given)
       ELSE given

RECURSIVE convert(_, _)

\* rv[field.name] = value, for a value that is not Missing.
FieldItem(key, value) == IF value # Missing THEN <<Item(key, value)>> ELSE <<>>

\* The first loop of EmbeddedField.convert from field i on: the items of
\* the declared fields, in declaration order, under their store keys.
RECURSIVE ConvertFields(_, _, _)
ConvertFields(model, raw, i) ==
    IF i > Len(field_order(model)) THEN <<>>
    ELSE LET name == field_order(model)[i]
         IN FieldItem(field_name(model, name),
                      convert(FieldOf(model, name),
                              IF Has(raw, name) THEN Get(raw, name) ELSE Missing))
            \o ConvertFields(model, raw, i + 1)

\* rv[key] = value for every item, in turn.
RECURSIVE PutAll(_, _)
PutAll(d, items) ==
    IF items = <<>> THEN d
    ELSE PutAll(Put(d, Head(items).k, Head(items).v), Tail(items))

\* The exception that the first of the values in error raised.
FirstRaise(values) == SelectSeq(values, IsRaise)[1]

\* The two loops of EmbeddedField.convert: the first conversion that raises
\* ends them; otherwise the items of the declared fields are followed by
\* the keys that are not declared names.
ConvertLoops(items, others) ==
    IF \E i \in 1..Len(items) : IsRaise(items[i].v)
    THEN FirstRaise([i \in 1..Len(items) |-> items[i].v])
    ELSE PutAll(Dict(<<>>), items \o others)

\* EmbeddedField.convert after super().convert(obj).
ConvertMapping(field, o) ==
    IF o = Missing \/ IsRaise(o) THEN o
    ELSE IF o.t # "dict" THEN Raise("ValueError")
    ELSE ConvertLoops(ConvertFields(field.model, o, 1),
                      SelectSeq(o.v, LAMBDA it :
                                        it.k \notin FieldNames(field.model)))

\* EmbeddedField.convert: an instance of the model gives its clean data,
\* marked; a mapping gives the declared fields in declaration order, then
\* the keys that are not declared names.
EmbeddedConvert(field, obj) ==
    IF obj.t = "model" /\ obj.model = field.model THEN SkipValidate(obj.data)
    ELSE ConvertMapping(field, FieldConvert(field, obj))

\* The list comprehension of ArrayField.convert: the first conversion that
\* raises ends it.
ConvertedList(items) ==
    IF \E i \in 1..Len(items) : IsRaise(items[i]) THEN FirstRaise(items)
    ELSE List(items)

\* ArrayField.convert after super().convert(values).
ConvertItems(field, vs) ==
    IF vs = Missing \/ IsRaise(vs) THEN vs
    ELSE IF vs.t # "list" THEN Raise("ValueError")
    ELSE ConvertedList([i \in 1..Len(vs.v) |-> convert(field.field, vs.v[i])])

\* ArrayField.convert
ArrayConvert(field, values) == ConvertItems(field, FieldConvert(field, values))

\* field.convert(value), by the class of the field.
convert(field, value) ==
    CASE field.cls = "EmbeddedField" -> EmbeddedConvert(field, value)
      [] field.cls = "ArrayField" -> ArrayConvert(field, value)
      [] OTHER -> FieldConvert(field, value)

\* Field.validate: a missing value is an error when the field is required;
\* a present value is type-checked (validate_type).
FieldValidate(field, value) ==
    IF value = Missing
    THEN IF field.required THEN "ValidationError" ELSE "none"
    ELSE IF value.t \in expected_types(field.cls) THEN "none"
    ELSE "ValidationError"

RECURSIVE validate(_, _)

\* field.validate(obj.get(field.name)) for one field of the embedded model.
ValidateField(field, obj) ==
    validate(field, IF Has(obj, field.name) THEN Get(obj, field.name) ELSE Missing)

\* EmbeddedField.validate without the test of _skip_validate.
EmbeddedValidate_NoSkip(field, obj) ==
    IF FieldValidate(field, obj) # "none" THEN "ValidationError"
    ELSE IF obj = Missing THEN "none"
    ELSE IF \E name \in FieldNames(field.model) :
               ValidateField(FieldOf(field.model, name), obj) # "none"
    THEN "ValidationError" ELSE "none"

\* EmbeddedField.validate
EmbeddedValidate(field, obj) ==
    IF "skip" \in DOMAIN obj THEN "none"
    ELSE IF FieldValidate(field, obj) # "none" THEN "ValidationError"
    ELSE IF obj = Missing THEN "none"
    ELSE IF \E name \in FieldNames(field.model) :
               ValidateField(FieldOf(field.model, name), obj) # "none"
    THEN "ValidationError" ELSE "none"

\* ArrayField.validate
ArrayValidate(field, values) ==
    IF FieldValidate(field, values) # "none" THEN "ValidationError"
    ELSE IF values = Missing THEN "none"
    ELSE IF \E i \in 1..Len(values.v) : validate(field.field, values.v[i]) # "none"
    THEN "ValidationError" ELSE "none"

\* field.validate(value), by the class of the field.
validate(field, value) ==
    CASE field.cls = "EmbeddedField" -> EmbeddedValidate(field, value)
      [] field.cls = "ArrayField" -> ArrayValidate(field, value)
      [] OTHER -> FieldValidate(field, value)

\* The value self.convert(value) of Field.__set__.
SetConverted(model, name, value) == convert(FieldOf(model, name), value)

\* self.validate(value) of Field.__set__ on what self.convert gave.
ValidateConverted(field, converted) ==
    IF IsRaise(converted) THEN converted.v ELSE validate(field, converted)

\* The exception that convert + validate of Field.__set__ raise, or "none".
SetError(model, name, value) ==
    ValidateConverted(FieldOf(model, name), SetConverted(model, name, value))

----------------------------------------------------------------------------
\* Instances and the mutation tracker

\* Optional[Set[str]]: None, or Some(S).
None == <<>>
Some(S) == <<S>>
Val(x) == IF x = None THEN {} ELSE x[1]
Truthy(x) == x # None /\ x[1] # {}

\* An instance as built by _from_clean_data and __init__: both tracker sets
\* None, no cached nested instance.
NewInst == [modified_fields |-> None, deleted_fields |-> None, cached |-> <<>>]

\* isinstance(value, EmbeddedModel) of a value held in instance.__dict__: a
\* nested instance, and not the list that an array field is cached as.
IsEmbeddedModel(value) == "cached" \in DOMAIN value

\* The keys of instance.__dict__ that hold a nested instance.
NestedKeys(i) == {key \in DOMAIN i.cached : IsEmbeddedModel(i.cached[key])}

\* BaseModel._init_tracked_fields
init_tracked_fields(i) ==
    [i EXCEPT !.modified_fields = IF @ = None THEN Some({}) ELSE @,
              !.deleted_fields = IF @ = None THEN Some({}) ELSE @]

\* TrackSet without the discard from the deleted set.
TrackSet_NoDiscard(i, name) ==
    LET j == init_tracked_fields(i)
    IN [j EXCEPT !.modified_fields = Some(Val(@) \cup {name})]

\* The tracking part of BaseModel.__setattr__ for a declared field.
TrackSet(i, name) ==
    LET j == init_tracked_fields(i)
    IN [j EXCEPT !.modified_fields = Some(Val(@) \cup {name}),
                 !.deleted_fields = Some(Val(@) \ {name})]

\* The tracking part of BaseModel.__delattr__ for a declared field.
TrackDel(i, name) ==
    LET j == init_tracked_fields(i)
    IN [j EXCEPT !.deleted_fields = Some(Val(@) \cup {name}),
                 !.modified_fields = Some(Val(@) \ {name})]

\* BaseModel._clear_tracked_fields
RECURSIVE clear_tracked_fields(_)
clear_tracked_fields(i) ==
    LET m1 == IF Truthy(i.modified_fields) THEN Some({}) ELSE i.modified_fields
        d1 == IF Truthy(m1) THEN Some({}) ELSE i.deleted_fields
    IN [modified_fields |-> m1,
        deleted_fields |-> d1,
        cached |-> IF DOMAIN i.cached = {} THEN <<>>
                   ELSE [k \in DOMAIN i.cached |->
                            IF IsEmbeddedModel(i.cached[k])
                            THEN clear_tracked_fields(i.cached[k])
                            ELSE i.cached[k]]]

\* combine descending into every cached nested instance, reassigned or not.
RECURSIVE combine_Descend(_, _, _)
combine_Descend(i, prev, attr_name) ==
    LET fields == Val(i[attr_name])
    IN {prev \o <<name>> : name \in fields}
       \cup UNION {combine_Descend(i.cached[key], prev \o <<key>>, attr_name) :
                     key \in NestedKeys(i)}

\* The inner function combine of BaseModel._combine_tracked_fields
RECURSIVE combine(_, _, _)
combine(i, prev, attr_name) ==
    LET fields == Val(i[attr_name])
    IN {prev \o <<name>> : name \in fields}
       \cup UNION {combine(i.cached[key], prev \o <<key>>, attr_name) :
                     key \in NestedKeys(i) \ fields}

\* BaseModel._combine_tracked_fields: <<modified, deleted>>
combine_tracked_fields(i) ==
    <<combine(i, <<>>, "modified_fields"), combine(i, <<>>, "deleted_fields")>>

----------------------------------------------------------------------------
\* Attribute access on an instance.  Each operator returns the instance,
\* its clean data and the exception raised:
\*     [inst |-> ..., data |-> ..., err |-> ...]

\* instance.__dict__[key] = nested
CachePut(c, key, nested) ==
    [k \in (DOMAIN c) \cup {key} |-> IF k = key THEN nested ELSE c[k]]

\* instance.__dict__.pop(key, None)
CachePop(c, key) ==
    IF (DOMAIN c) \ {key} = {} THEN <<>>
    ELSE [k \in (DOMAIN c) \ {key} |-> c[k]]

\* ArrayField.innermost
RECURSIVE innermost(_)
innermost(array_field) ==
    IF array_field.field.cls # "ArrayField" THEN array_field.field
    ELSE innermost(array_field.field)

\* ArrayField._convert_data_in_list_to_model (walk): one fresh instance for
\* every mapping of the list, at every level of nesting; the list itself
\* when the innermost item field is no embedded field.
RECURSIVE walk(_, _)
walk(array_field, vals) ==
    IF innermost(array_field).cls # "EmbeddedField" THEN vals
    ELSE IF array_field.field.cls = "EmbeddedField"
    THEN List([k \in 1..Len(vals.v) |-> NewInst])
    ELSE List([k \in 1..Len(vals.v) |-> walk(array_field.field, vals.v[k])])

convert_data_in_list_to_model(field, values) == walk(field, values)

\* What Field.__get__ and Field.__set__ leave in instance.__dict__ for the
\* value of a field: nothing unless the field is an embedded or array field.
CacheValue(c, field, key, value) ==
    IF field.cls = "EmbeddedField" THEN CachePut(c, key, NewInst)
    ELSE IF field.cls = "ArrayField"
    THEN CachePut(c, key, convert_data_in_list_to_model(field, value))
    ELSE c

\* BaseModel.__setattr__ with Field.__set__, for a declared field.
setattr(i, d, model, name, value) ==
    LET j == TrackSet(i, name)
        e == SetError(model, name, value)
        key == field_name(model, name)
    IN IF e # "none"
       THEN [inst |-> j, data |-> d, err |-> e]
       ELSE [inst |-> [j EXCEPT !.cached =
                         CacheValue(@, FieldOf(model, name), key,
                                    SetConverted(model, name, value))],
             data |-> Put(d, key, SetConverted(model, name, value)),
             err |-> "none"]

\* BaseModel.__delattr__ with Field.__delete__, for a declared field.
delattr(i, d, model, name) ==
    LET j == TrackDel(i, name)
        key == field_name(model, name)
    IN [inst |-> [j EXCEPT !.cached = CachePop(@, key)],
        data |-> Pop(d, key),
        err |-> "none"]

\* Field.__get__: the nested instance of an embedded field, and the list of
\* instances of an array field, are built from the clean data on first
\* access and cached.
getattr(i, d, model, name) ==
    LET key == field_name(model, name)
    IN IF ~Has(d, key)
       THEN [inst |-> i, data |-> d, err |-> "AttributeError"]
       ELSE [inst |-> IF key \in DOMAIN i.cached THEN i
                      ELSE [i EXCEPT !.cached =
                               CacheValue(@, FieldOf(model, name), key, Get(d, key))],
             data |-> d,
             err |-> "none"]

----------------------------------------------------------------------------
\* Store calls sent by save() and delete()

NoCall == [op |-> "none", filter |-> Missing, doc |-> Dict(<<>>),
           keys |-> {}, set |-> {}, unset |-> {}]

\* collection.insert_one(doc)
InsertOne(doc) == [NoCall EXCEPT !.op = "insert_one", !.doc = doc]

\* collection.update_one({'_id': pk}, {'$set': doc})
UpdateFull(pk, doc) ==
    [NoCall EXCEPT !.op = "update_one", !.filter = pk, !.keys = {"$set"}, !.doc = doc]

\* collection.update_one({'_id': pk}, update): set is the '$set' mapping as
\* a set of <<path, value>> pairs, unset the paths of '$unset'.
UpdateOne(pk, keys, set, unset) ==
    [NoCall EXCEPT !.op = "update_one", !.filter = pk, !.keys = keys,
                   !.set = set, !.unset = unset]

\* collection.delete_one({'_id': pk})
DeleteOne(pk) == [NoCall EXCEPT !.op = "delete_one", !.filter = pk]

\* MongoModel.pk: self._data.get('_id', None); Missing stands for None.
pk(d) == IF Has(d, "_id") THEN Get(d, "_id") ELSE Missing

\* get_dict_item_with_dot: whether every key of the path is found ...
RECURSIVE HasDictItemWithDot(_, _)
HasDictItemWithDot(d, path) ==
    IF path = <<>> THEN TRUE
    ELSE d.t = "dict" /\ Has(d, Head(path))
         /\ HasDictItemWithDot(Get(d, Head(path)), Tail(path))

\* ... and the item it returns.
RECURSIVE get_dict_item_with_dot(_, _)
get_dict_item_with_dot(d, path) ==
    IF path = <<>> THEN d
    ELSE get_dict_item_with_dot(Get(d, Head(path)), Tail(path))

----------------------------------------------------------------------------
\* The document instance: construction

\* Values given to a StringField: strings, and an int that validate_type
\* rejects.
LeafInputs == Strs \cup {Num(1)}

\* Values given to the embedded field f2: mappings, and an int.
SubInputs ==
    {Dict(<<>>)} \cup {Dict(<<Item("f1", x)>>) : x \in LeafInputs} \cup {Num(1)}

Inputs(model, name) ==
    IF hint_to_field(model, name) = "EmbeddedField" THEN SubInputs ELSE LeafInputs

\* Keyword arguments MainModel(**kw) accepts.
ValidKw ==
    {Dict(f1 \o f2 \o id) :
        f1 \in {<<>>} \cup {<<Item("f1", x)>> : x \in Strs},
        f2 \in {<<>>} \cup {<<Item("f2", x)>> :
                   x \in {Dict(<<>>)} \cup {Dict(<<Item("f1", y)>>) : y \in Strs}},
        id \in {<<>>, <<Item("_id", Oid(1))>>}}

\* Documents the store returns: '_id' first unless it was projected out.
StoreDocs ==
    {Dict(id \o f1 \o f2) :
        f1 \in {<<>>} \cup {<<Item("f1", x)>> : x \in Strs},
        f2 \in {<<>>} \cup {<<Item("f2", x)>> :
                   x \in {Dict(<<>>)} \cup {Dict(<<Item("f1", y)>>) : y \in Strs}},
        id \in {<<>>, <<Item("_id", Oid(1))>>}}

Op(name, field, full) == [name |-> name, field |-> field, full |-> full]

\* MainModel(**kw): BaseModel.__new__ / _from_dirty_data, MongoModel.__init__
InitNew ==
    \E kw \in ValidKw :
        /\ data = EmbeddedConvert(RootField("MainModel"), kw)
        /\ state = "before_save"
        /\ op = Op("__init__", "", FALSE)

\* MongoModel.from_document(doc)
InitFromDocument ==
    \E doc \in StoreDocs :
        /\ data = doc
        /\ state = "from_document"
        /\ op = Op("from_document", "", FALSE)

IdxIdle ==
    /\ meta_indexes = <<>>
    /\ store_indexes = {}
    /\ idx_calls = <<>>
    /\ idx_err = "none"
    /\ runs = 0

\* The operation of a conversion: its name, the field and the value given.
ConvOp(name, field, value) == [name |-> name, field |-> field, value |-> value]

ConvIdle ==
    /\ cv_model = "MainModel"
    /\ cv_raw = Dict(<<>>)
    /\ cv_data = Missing
    /\ cv_clean = Missing
    /\ cv_op = ConvOp("none", "", Missing)
    /\ cv_err = "none"
    /\ cv_n = 0

MetaIdle ==
    /\ mt_aliases = <<>>
    /\ mt_name = <<>>
    /\ mt_err = "none"
    /\ mt_done = FALSE

PathIdle ==
    /\ pt_name = <<>>
    /\ pt_field = Missing
    /\ pt_err = "none"
    /\ pt_warn = <<>>
    /\ pt_done = FALSE

UpdIdle ==
    /\ up_cls = "Post"
    /\ up_update = Missing
    /\ up_bypass = FALSE
    /\ up_err = "none"
    /\ up_warn = <<>>
    /\ up_call = Missing
    /\ up_done = FALSE

WrIdle ==
    /\ wr_op = "none"
    /\ wr_docs = <<>>
    /\ wr_bypass = FALSE
    /\ wr_err = "none"
    /\ wr_call = Missing
    /\ wr_done = FALSE

SwIdle ==
    /\ sw_db = 0
    /\ sw_coll = Missing
    /\ sw_stack = <<>>
    /\ sw_op = <<>>
    /\ sw_err = "none"

\* The threads that use the logger.
NumThreads == 2
Threads == 1..NumThreads

LogIdle ==
    /\ lg_logger = "None"
    /\ lg_handlers = 0
    /\ lg_lock = 0
    /\ lg_pc = [t \in Threads |-> "idle"]
    /\ lg_ret = [t \in Threads |-> "None"]
    /\ lg_calls = [t \in Threads |-> 0]

OtherIdle == WrIdle /\ SwIdle /\ LogIdle

Init ==
    /\ InitNew \/ InitFromDocument
    /\ inst = NewInst
    /\ err = "none"
    /\ call = NoCall
    /\ tick = 0
    /\ IdxIdle
    /\ ConvIdle
    /\ MetaIdle
    /\ PathIdle
    /\ UpdIdle
    /\ OtherIdle

----------------------------------------------------------------------------
\* The document instance: operations

Done(name, field, full) ==
    /\ op' = Op(name, field, full)
    /\ tick' = 1 - tick
    /\ UNCHANGED <<idxvars, convvars, metavars, pathvars, updvars, wrvars, swvars, logvars>>

\* obj.<name> = value
SetAttr(name, value) ==
    LET r == setattr(inst, data, "MainModel", name, value)
    IN /\ inst' = r.inst
       /\ data' = r.data
       /\ err' = r.err
       /\ call' = NoCall
       /\ UNCHANGED state
       /\ Done("setattr", name, FALSE)

\* del obj.<name>
DelAttr(name) ==
    LET r == delattr(inst, data, "MainModel", name)
    IN /\ inst' = r.inst
       /\ data' = r.data
       /\ err' = r.err
       /\ call' = NoCall
       /\ UNCHANGED state
       /\ Done("delattr", name, FALSE)

\* obj.f2
GetAttr(name) ==
    LET r == getattr(inst, data, "MainModel", name)
    IN /\ inst' = r.inst
       /\ data' = r.data
       /\ err' = r.err
       /\ call' = NoCall
       /\ UNCHANGED state
       /\ Done("getattr", name, FALSE)

\* obj.f2.<name> = value: Field.__get__ on obj, then __setattr__ on the
\* nested instance, whose _data is the dict held under 'f2' in obj._data.
SubSetAttr(name, value) ==
    LET g == getattr(inst, data, "MainModel", "f2")
        key == field_name("MainModel", "f2")
        sub == FieldModel("MainModel", "f2")
    IN /\ IF g.err # "none"
          THEN /\ err' = g.err
               /\ UNCHANGED <<inst, data>>
          ELSE LET r == setattr(g.inst.cached[key], Get(data, key), sub, name, value)
               IN /\ inst' = [g.inst EXCEPT !.cached[key] = r.inst]
                  /\ data' = Put(data, key, r.data)
                  /\ err' = r.err
       /\ call' = NoCall
       /\ UNCHANGED state
       /\ Done("sub.setattr", name, FALSE)

\* del obj.f2.<name>
SubDelAttr(name) ==
    LET g == getattr(inst, data, "MainModel", "f2")
        key == field_name("MainModel", "f2")
        sub == FieldModel("MainModel", "f2")
    IN /\ IF g.err # "none"
          THEN /\ err' = g.err
               /\ UNCHANGED <<inst, data>>
          ELSE LET r == delattr(g.inst.cached[key], Get(data, key), sub, name)
               IN /\ inst' = [g.inst EXCEPT !.cached[key] = r.inst]
                  /\ data' = Put(data, key, r.data)
                  /\ err' = r.err
       /\ call' = NoCall
       /\ UNCHANGED state
       /\ Done("sub.delattr", name, FALSE)

\* obj._clear_tracked_fields()
ClearTrackedFields ==
    /\ inst' = clear_tracked_fields(inst)
    /\ err' = "none"
    /\ call' = NoCall
    /\ UNCHANGED <<state, data>>
    /\ Done("clear", "", FALSE)

\* save_state marking every saved instance 'after_save'.
save_state_AlwaysAfterSave(s) == "after_save"

\* MongoModel._state after a save() that raised nothing: only the insert
\* branch assigns it.
save_state(s) == IF s = "before_save" THEN "after_save" ELSE s

\* The outcome of MongoModel.save:
\*     [state |-> ..., data |-> ..., inst |-> ..., err |-> ..., call |-> ...]
save(s, d, i, full_update) ==
    LET raise(e) == [state |-> s, data |-> d, inst |-> i, err |-> e, call |-> NoCall]
        tracked == combine_tracked_fields(i)
        modified == tracked[1]
        deleted == tracked[2]
    IN IF s = "before_save"
       THEN \* insert_one adds the '_id' it generates to the dict it is given
            [state |-> save_state(s),
             data |-> IF Has(d, "_id") THEN d ELSE Put(d, "_id", Oid(1)),
             inst |-> clear_tracked_fields(i),
             err |-> "none",
             call |-> InsertOne(d)]
       ELSE IF s \in {"after_save", "from_document"}
       THEN IF pk(d) = Missing THEN raise("RuntimeError")
            ELSE IF full_update
            THEN [state |-> save_state(s), data |-> d, inst |-> clear_tracked_fields(i),
                  err |-> "none", call |-> UpdateFull(pk(d), d)]
            ELSE IF \E field \in modified : ~HasDictItemWithDot(d, field)
            THEN raise("KeyError")
            ELSE [state |-> save_state(s), data |-> d, inst |-> clear_tracked_fields(i),
                  err |-> "none",
                  call |-> UpdateOne(pk(d),
                              (IF modified # {} THEN {"$set"} ELSE {})
                                 \cup (IF deleted # {} THEN {"$unset"} ELSE {}),
                              {<<field, get_dict_item_with_dot(d, field)>> :
                                  field \in modified},
                              deleted)]
       ELSE raise("RuntimeError")

\* delete without the check of the primary key.
delete_NoPkCheck(s, d, i) ==
    IF s = "before_save"
    THEN [state |-> s, data |-> d, inst |-> i, err |-> "RuntimeError", call |-> NoCall]
    ELSE [state |-> "deleted", data |-> d, inst |-> clear_tracked_fields(i),
          err |-> "none", call |-> DeleteOne(pk(d))]

\* The outcome of MongoModel.delete
delete(s, d, i) ==
    LET raise(e) == [state |-> s, data |-> d, inst |-> i, err |-> e, call |-> NoCall]
    IN IF s = "before_save" THEN raise("RuntimeError")
       ELSE IF pk(d) = Missing THEN raise("RuntimeError")
       ELSE [state |-> "deleted", data |-> d, inst |-> clear_tracked_fields(i),
             err |-> "none", call |-> DeleteOne(pk(d))]

\* obj.save(full_update)
Save(full_update) ==
    LET r == save(state, data, inst, full_update)
    IN /\ state' = r.state
       /\ data' = r.data
       /\ inst' = r.inst
       /\ err' = r.err
       /\ call' = r.call
       /\ Done("save", "", full_update)

\* obj.delete()
Delete ==
    LET r == delete(state, data, inst)
    IN /\ state' = r.state
       /\ data' = r.data
       /\ inst' = r.inst
       /\ err' = r.err
       /\ call' = r.call
       /\ Done("delete", "", FALSE)

Next ==
    \/ \E name \in FieldNames("MainModel") :
          \E value \in Inputs("MainModel", name) : SetAttr(name, value)
    \/ \E name \in FieldNames("MainModel") : DelAttr(name)
    \/ GetAttr("f2")
    \/ \E name \in FieldNames("SubModel") :
          \E value \in Inputs("SubModel", name) : SubSetAttr(name, value)
    \/ \E name \in FieldNames("SubModel") : SubDelAttr(name)
    \/ ClearTrackedFields
    \/ \E full_update \in BOOLEAN : Save(full_update)
    \/ Delete

Spec == Init /\ [][Next]_vars

----------------------------------------------------------------------------
\* Indexes: Meta.indexes, normalize_indexes, default_index_name
\*
\* A mapping (an index declared with options, an index document of the
\* store, the keyword arguments of create_index) is a function from its keys
\* to its values.  An index name is the sequence of the tokens that '_'
\* joins: 'a_1_b_-1' is <<"a", "1", "b", "-1">>, 'foobar' is <<"foobar">>.

EmptyMap == <<>>
MapPop(m, k) ==
    IF (DOMAIN m) \ {k} = {} THEN EmptyMap ELSE [j \in (DOMAIN m) \ {k} |-> m[j]]
MapPut(m, k, x) == [j \in (DOMAIN m) \cup {k} |-> IF j = k THEN x ELSE m[j]]
\* m.pop(k, None) / m.get(k): 0 stands for None where the value is a TTL.
MapGet(m, k, default) == IF k \in DOMAIN m THEN m[k] ELSE default

\* The forms of an index key in Meta.indexes: 'a', ('a', -1), [form, ...]
KStr(f) == [t |-> "str", f |-> f, d |-> 0, l |-> <<>>]
KTuple(f, d) == [t |-> "tuple", f |-> f, d |-> d, l |-> <<>>]
KList(l) == [t |-> "list", f |-> "", d |-> 0, l |-> l]

\* An entry of Meta.indexes: a key form, or a mapping with options.
Plain(k) == [t |-> "key", k |-> k, m |-> EmptyMap]
Mapping(m) == [t |-> "dict", k |-> KStr(""), m |-> m]

\* The inner function normalize of normalize_indexes.
RECURSIVE normalize(_)
normalize(idx) ==
    IF idx.t = "str" THEN <<[f |-> idx.f, d |-> 1]>>
    ELSE IF idx.t = "tuple" THEN <<[f |-> idx.f, d |-> idx.d]>>
    ELSE IF Len(idx.l) = 1 THEN normalize(idx.l[1])
    ELSE normalize(idx.l[1]) \o normalize(KList(Tail(idx.l)))

\* to_camelcase on the option names that are declared.
to_camelcase(s) ==
    IF s = "expire_after_seconds" THEN "expireAfterSeconds" ELSE s

\* hump_keys on a mapping of options.
hump_keys(m) ==
    IF DOMAIN m = {} THEN EmptyMap
    ELSE [k2 \in {to_camelcase(k) : k \in DOMAIN m} |->
             m[CHOOSE k \in DOMAIN m : to_camelcase(k) = k2]]

\* normalize_indexes on the entries from position i on:
\*     [out |-> the normalized indexes, meta |-> Meta.indexes as the call
\*      leaves it, err |-> the exception raised]
\* index.pop('key') takes the key out of the declared mapping itself.
RECURSIVE normalize_indexes(_, _)
normalize_indexes(indexes, i) ==
    IF i > Len(indexes) THEN [out |-> <<>>, meta |-> indexes, err |-> "none"]
    ELSE LET index == indexes[i]
         IN IF index.t = "key"
            THEN LET r == normalize_indexes(indexes, i + 1)
                 IN [r EXCEPT !.out = <<[key |-> normalize(index.k)]>> \o @]
            ELSE IF "key" \notin DOMAIN index.m
            THEN [out |-> <<>>, meta |-> indexes, err |-> "KeyError"]
            ELSE LET key == normalize(index.m["key"])
                     popped == MapPop(index.m, "key")
                     r == normalize_indexes(
                              [indexes EXCEPT ![i] = Mapping(popped)], i + 1)
                 IN [r EXCEPT !.out = <<MapPut(hump_keys(popped), "key", key)>> \o @]

DirStr(d) == IF d = 1 THEN "1" ELSE "-1"

\* default_index_name
RECURSIVE default_index_name(_)
default_index_name(index_key) ==
    IF index_key = <<>> THEN <<>>
    ELSE <<Head(index_key).f, DirStr(Head(index_key).d)>>
         \o default_index_name(Tail(index_key))

----------------------------------------------------------------------------
\* Indexes: MongoModel._build_indexes

\* Calls that change the store.
CreateIndex(key, kw) == [op |-> "create_index", key |-> key, name |-> <<>>, kw |-> kw]
DropIndex(name) == [op |-> "drop_index", key |-> <<>>, name |-> name, kw |-> EmptyMap]
CollMod(name, ttl) ==
    [op |-> "collMod", key |-> <<>>, name |-> name,
     kw |-> [expireAfterSeconds |-> ttl]]

\* The store after a call: create_index stores the key, the options given,
\* the index version and the name (the default name unless one is given);
\* drop_index removes the index of that name; collMod sets its TTL.
StoreAfter(store, c) ==
    IF c.op = "create_index"
    THEN store \cup {MapPut(MapPut(MapPut(c.kw, "key", c.key), "v", 2), "name",
                            MapGet(c.kw, "name", default_index_name(c.key)))}
    ELSE IF c.op = "drop_index"
    THEN {ix \in store : ix["name"] # c.name}
    ELSE {IF ix["name"] = c.name
          THEN MapPut(ix, "expireAfterSeconds", c.kw["expireAfterSeconds"])
          ELSE ix : ix \in store}

RECURSIVE StoreAfterAll(_, _)
StoreAfterAll(store, cs) ==
    IF cs = <<>> THEN store ELSE StoreAfterAll(StoreAfter(store, Head(cs)), Tail(cs))

\* The dict {default_index_name(index['key']): index for index in ...}: the
\* index kept under a name is the last one of the list with that name.
ByName(indexes, name) ==
    indexes[CHOOSE i \in 1..Len(indexes) :
               /\ default_index_name(indexes[i]["key"]) = name
               /\ \A j \in (i + 1)..Len(indexes) :
                     default_index_name(indexes[j]["key"]) # name]

\* The index documents of collection.list_indexes() with a key of that name.
OldByName(store, name) ==
    CHOOSE ix \in store : default_index_name(ix["key"]) = name

\* A set as a sequence: the order in which a Python set is iterated.
RECURSIVE SetToSeq(_)
SetToSeq(S) ==
    IF S = {} THEN <<>>
    ELSE LET x == CHOOSE y \in S : TRUE IN <<x>> \o SetToSeq(S \ {x})

RECURSIVE Flatten(_)
Flatten(ss) == IF ss = <<>> THEN <<>> ELSE Head(ss) \o Flatten(Tail(ss))

\* have_same_shape on two mappings of index options (scalar values).
have_same_shape(obj1, obj2) ==
    \/ obj1 = obj2
    \/ /\ DOMAIN obj1 = DOMAIN obj2
       /\ \A key \in DOMAIN obj1 : obj1[key] = obj2[key]

\* not_none reading "some item is not None".
not_none_Any(value) == \E i \in 1..Len(value) : value[i] # 0

\* not_none on a list: all items are not None (0 stands for None).
not_none(value) == \A i \in 1..Len(value) : value[i] # 0

\* "create new indexes": the call for a missing index.
create_missing(index) == CreateIndex(index["key"], MapPop(index, "key"))

\* "drop old indexes" without the exception for '_id_'.
drop_extra_All(index) == <<DropIndex(index["name"])>>

\* "drop old indexes": the calls for an index that is only in the store.
drop_extra(index) ==
    IF index["name"] # <<"_id_">> THEN <<DropIndex(index["name"])>> ELSE <<>>

\* modify_existing recreating an index without its declared TTL.
modify_existing_NoTtl(new, old) ==
    LET key == new["key"]
        new1 == MapPop(new, "key")
        new2 == IF "name" \in DOMAIN new1 THEN new1
                ELSE MapPut(new1, "name", default_index_name(key))
        old1 == MapPop(MapPop(MapPop(old, "key"), "v"), "ns")
        new_ttl == MapGet(new2, "expireAfterSeconds", 0)
        old_ttl == MapGet(old1, "expireAfterSeconds", 0)
        new_index == MapPop(new2, "expireAfterSeconds")
        old_index == MapPop(old1, "expireAfterSeconds")
        same_index_option == have_same_shape(new_index, old_index)
    IN IF same_index_option /\ new_ttl = old_ttl THEN <<>>
       ELSE IF same_index_option /\ not_none(<<new_ttl, old_ttl>>)
       THEN <<CollMod(new_index["name"], new_ttl)>>
       ELSE <<DropIndex(old_index["name"]), CreateIndex(key, new_index)>>

\* "modify existing indexes": the calls for an index that is declared and
\* in the store.
modify_existing(new, old) ==
    LET key == new["key"]
        new1 == MapPop(new, "key")
        new2 == IF "name" \in DOMAIN new1 THEN new1
                ELSE MapPut(new1, "name", default_index_name(key))
        old1 == MapPop(MapPop(MapPop(old, "key"), "v"), "ns")
        new_ttl == MapGet(new2, "expireAfterSeconds", 0)
        old_ttl == MapGet(old1, "expireAfterSeconds", 0)
        new_index == MapPop(new2, "expireAfterSeconds")
        old_index == MapPop(old1, "expireAfterSeconds")
        same_index_option == have_same_shape(new_index, old_index)
    IN IF same_index_option /\ new_ttl = old_ttl THEN <<>>
       ELSE IF same_index_option /\ not_none(<<new_ttl, old_ttl>>)
       THEN <<CollMod(new_index["name"], new_ttl)>>
       ELSE <<DropIndex(old_index["name"]),
              CreateIndex(key, IF new_ttl # 0
                               THEN MapPut(new_index, "expireAfterSeconds", new_ttl)
                               ELSE new_index)>>

\* The outcome of MongoModel._build_indexes:
\*     [meta |-> ..., store |-> ..., calls |-> ..., err |-> ...]
build_indexes(meta, store) ==
    LET n == normalize_indexes(meta, 1)
        indexes == n.out
        old == {default_index_name(ix["key"]) : ix \in store}
        new == {default_index_name(indexes[i]["key"]) : i \in 1..Len(indexes)}
        existing == SetToSeq(new \cap old)
        missing == SetToSeq(new \ old)
        extra == SetToSeq(old \ new)
        calls ==
            [i \in 1..Len(missing) |-> create_missing(ByName(indexes, missing[i]))]
            \o Flatten([i \in 1..Len(extra) |-> drop_extra(OldByName(store, extra[i]))])
            \o Flatten([i \in 1..Len(existing) |->
                          modify_existing(ByName(indexes, existing[i]),
                                          OldByName(store, existing[i]))])
    IN IF n.err # "none"
       THEN [meta |-> n.meta, store |-> store, calls |-> <<>>, err |-> n.err]
       ELSE [meta |-> n.meta, store |-> StoreAfterAll(store, calls),
             calls |-> calls, err |-> "none"]

\* Index declarations: options of a declared mapping.
Ttls == {10 * i : i \in 1..NumTtl}

DeclaredOptions ==
    {u @@ t @@ n :
        u \in {EmptyMap, [unique |-> TRUE], [unique |-> FALSE]},
        t \in {EmptyMap} \cup {[expire_after_seconds |-> x] : x \in Ttls},
        n \in {EmptyMap, [name |-> <<"foobar">>]}}

DeclaredEntries ==
    {Plain(KStr("a")), Plain(KTuple("b", -1)),
     Plain(KList(<<KStr("a"), KTuple("b", -1)>>)), Plain(KStr("_id"))}
    \cup {Mapping([key |-> KStr("a")] @@ o) : o \in DeclaredOptions}

DeclaredKey(e) == normalize(IF e.t = "key" THEN e.k ELSE e.m["key"])

\* Declared index lists: no two entries on the same key.
DeclaredLists ==
    {l \in UNION {[1..n -> DeclaredEntries] : n \in 0..MaxDeclared} :
        \A i, j \in 1..Len(l) : i # j => DeclaredKey(l[i]) # DeclaredKey(l[j])}

\* Index documents of the store.
IdIndex == [key |-> <<[f |-> "_id", d |-> 1]>>, v |-> 2, name |-> <<"_id_">>]

StoredOn(key, names) ==
    {[key |-> key, v |-> 2, name |-> n] @@ u @@ t :
        n \in names,
        u \in {EmptyMap, [unique |-> TRUE], [unique |-> FALSE]},
        t \in {EmptyMap} \cup {[expireAfterSeconds |-> x] : x \in Ttls}}

\* The store has no index (the collection does not exist), or the index on
\* '_id' and at most one index on each of the keys a, (b, -1) and c.
StoreIndexSets ==
    {{}} \cup
    {{IdIndex} \cup a \cup b \cup c :
        a \in {{}} \cup {{ix} : ix \in StoredOn(<<[f |-> "a", d |-> 1]>>,
                                               {<<"a", "1">>, <<"foobar">>})},
        b \in {{}, {[key |-> <<[f |-> "b", d |-> -1]>>, v |-> 2,
                     name |-> <<"b", "-1">>]}},
        c \in {{}, {[key |-> <<[f |-> "c", d |-> 1]>>, v |-> 2,
                     name |-> <<"c", "1">>, unique |-> TRUE]}}}

MaxRuns == 2

DocIdle ==
    /\ state = "before_save"
    /\ data = Dict(<<>>)
    /\ inst = NewInst
    /\ op = Op("__init__", "", FALSE)
    /\ err = "none"
    /\ call = NoCall
    /\ tick = 0

InitIdx ==
    /\ meta_indexes \in DeclaredLists
    /\ store_indexes \in StoreIndexSets
    /\ idx_calls = <<>>
    /\ idx_err = "none"
    /\ runs = 0
    /\ DocIdle
    /\ ConvIdle
    /\ MetaIdle
    /\ PathIdle
    /\ UpdIdle
    /\ OtherIdle

\* cls._build_indexes(), as set_collection calls it
BuildIndexes ==
    /\ runs < MaxRuns
    /\ LET r == build_indexes(meta_indexes, store_indexes)
       IN /\ meta_indexes' = r.meta
          /\ store_indexes' = r.store
          /\ idx_calls' = r.calls
          /\ idx_err' = r.err
    /\ runs' = runs + 1
    /\ UNCHANGED <<docvars, convvars, metavars, pathvars, updvars, wrvars, swvars, logvars>>

NextIdx == BuildIndexes

SpecIdx == InitIdx /\ [][NextIdx]_vars

----------------------------------------------------------------------------
\* Conversion of raw data: cls(**kw), cls._get_clean_data(data) and the
\* assignment of a field (specification SpecConv)

\* Largest number of conversion operations on one instance.
MaxConvOps == 2

ConvModels == {"ConvMain", "AliasMain"}

\* Mappings given to a field of an embedded model.
SubDicts(sub) ==
    IF sub = "ConvSub"
    THEN {Dict(<<>>)} \cup {Dict(<<Item("f", x)>>) : x \in Strs \cup {Num(1)}}
    ELSE {Dict(<<>>), Dict(<<Item("f1", Num(1))>>), Dict(<<Item("f1", Str(1))>>)}

\* Instances of an embedded model: one as its constructor builds it, and one
\* whose clean data was changed afterwards through to_dict() to a value the
\* schema of the model rejects.
SubInstances(sub) ==
    IF sub = "ConvSub"
    THEN {ModelInstance(sub, Dict(<<Item("f", upper(Str(1)))>>)),
          ModelInstance(sub, Dict(<<Item("f", Num(1))>>))}
    ELSE {ModelInstance(sub, Dict(<<Item("1f", Num(1))>>)),
          ModelInstance(sub, Dict(<<Item("1f", Str(1))>>))}

\* Values given to a field, by its class.
FieldInputs(model, name) ==
    LET cls == hint_to_field(model, name)
        sub == FieldModel(model, name)
    IN CASE cls = "StringField" -> Strs \cup {Num(1)}
         [] cls = "IntField" -> {Num(1), Str(1)}
         [] cls = "EmbeddedField" ->
               SubDicts(sub) \cup SubInstances(sub) \cup {Num(1)}
         [] cls = "ArrayField" ->
               {List(<<>>), Num(1)}
               \cup {List(<<x>>) : x \in SubDicts(sub) \cup SubInstances(sub)}
               \cup {List(<<x, Dict(<<Item("f", Str(1))>>)>>) : x \in SubInstances(sub)}

\* Keyword arguments: each declared field given or not, in declaration
\* order, with or without a keyword that is not a declared field.
RECURSIVE RawItems(_, _)
RawItems(model, i) ==
    IF i > Len(field_order(model)) THEN {<<>>}
    ELSE LET name == field_order(model)[i]
         IN {head \o rest :
                head \in {<<>>} \cup {<<Item(name, x)>> : x \in FieldInputs(model, name)},
                rest \in RawItems(model, i + 1)}

RawInputs(model) ==
    {Dict(items \o extra) :
        items \in RawItems(model, 1),
        extra \in {<<>>, <<Item("extra", Num(1))>>}}

\* BaseModel._from_dirty_data: [data |-> the clean data, err |-> ...]
from_dirty_data(model, raw) ==
    LET root == RootField(model)
        converted == convert(root, raw)
    IN IF IsRaise(converted) THEN [data |-> Missing, err |-> converted.v]
       ELSE IF validate(root, converted) # "none"
       THEN [data |-> Missing, err |-> validate(root, converted)]
       ELSE [data |-> converted, err |-> "none"]

\* BaseModel._get_clean_data: [data |-> the clean data, err |-> ...]
get_clean_data(model, d, bypass_validation) ==
    LET root == RootField(model)
        converted == convert(root, d)
    IN IF IsRaise(converted) THEN [data |-> Missing, err |-> converted.v]
       ELSE IF ~bypass_validation /\ validate(root, converted) # "none"
       THEN [data |-> Missing, err |-> validate(root, converted)]
       ELSE [data |-> converted, err |-> "none"]

InitConv ==
    /\ cv_model \in ConvModels
    /\ cv_raw \in RawInputs(cv_model)
    /\ cv_data = Missing
    /\ cv_clean = Missing
    /\ cv_op = ConvOp("none", "", Missing)
    /\ cv_err = "none"
    /\ cv_n = 0
    /\ DocIdle
    /\ IdxIdle
    /\ MetaIdle
    /\ PathIdle
    /\ UpdIdle
    /\ OtherIdle

\* obj = cls(**kw)
FromDirtyData ==
    /\ cv_n = 0
    /\ LET r == from_dirty_data(cv_model, cv_raw)
       IN /\ cv_data' = r.data
          /\ cv_err' = r.err
    /\ cv_op' = ConvOp("__new__", "", Missing)
    /\ cv_n' = cv_n + 1
    /\ UNCHANGED <<cv_model, cv_raw, cv_clean, docvars, idxvars,
                 metavars, pathvars, updvars, wrvars, swvars, logvars>>

\* cls._get_clean_data(obj.to_dict())
GetCleanData ==
    /\ cv_n \in 1..(MaxConvOps - 1)
    /\ cv_data # Missing
    /\ LET r == get_clean_data(cv_model, cv_data, FALSE)
       IN /\ cv_clean' = r.data
          /\ cv_err' = r.err
    /\ cv_op' = ConvOp("_get_clean_data", "", Missing)
    /\ cv_n' = cv_n + 1
    /\ UNCHANGED <<cv_model, cv_raw, cv_data, docvars, idxvars,
                 metavars, pathvars, updvars, wrvars, swvars, logvars>>

\* obj.<name> = value
SetField(name, value) ==
    /\ cv_n \in 1..(MaxConvOps - 1)
    /\ cv_data # Missing
    /\ LET r == setattr(NewInst, cv_data, cv_model, name, value)
       IN /\ cv_data' = r.data
          /\ cv_err' = r.err
    /\ cv_op' = ConvOp("setattr", name, value)
    /\ cv_n' = cv_n + 1
    /\ UNCHANGED <<cv_model, cv_raw, cv_clean, docvars, idxvars,
                 metavars, pathvars, updvars, wrvars, swvars, logvars>>

NextConv ==
    \/ FromDirtyData
    \/ GetCleanData
    \/ \E name \in FieldNames(cv_model) :
          \E value \in FieldInputs(cv_model, name) : SetField(name, value)

SpecConv == InitConv /\ [][NextConv]_vars

----------------------------------------------------------------------------
\* The definition of a model class with Meta.aliases (specification SpecMeta)
\*     class MainModel(BaseModel):
\*         f1: str
\*         f2: SubModel
\*         class Meta:
\*             aliases = [...]

\* Largest number of pairs of Meta.aliases.
MaxAliases == 2

\* Names that Meta.aliases gives as a field: the declared ones and one that
\* is not declared; names it gives as an alias.
AliasFields == FieldNames("MainModel") \cup {"f3"}
AliasTargets == FieldNames("MainModel") \cup {"x", "y"}

AliasLists ==
    UNION {[1..n -> {Alias(f, a) : f \in AliasFields, a \in AliasTargets}] :
             n \in 0..MaxAliases}

InitMeta ==
    /\ mt_aliases \in AliasLists
    /\ mt_name = <<>>
    /\ mt_err = "none"
    /\ mt_done = FALSE
    /\ DocIdle
    /\ IdxIdle
    /\ ConvIdle
    /\ PathIdle
    /\ UpdIdle
    /\ OtherIdle

\* The class statement: ModelType.__init__ with _process_meta.  A class
\* whose definition raises does not exist.
DefineClass ==
    /\ ~mt_done
    /\ LET r == process_meta(field_order("MainModel"), mt_aliases)
       IN /\ mt_err' = r.err
          /\ mt_name' = IF r.err = "none" THEN r.name ELSE <<>>
    /\ mt_done' = TRUE
    /\ UNCHANGED <<mt_aliases, docvars, idxvars, convvars, pathvars, updvars, wrvars, swvars, logvars>>

NextMeta == DefineClass

SpecMeta == InitMeta /\ [][NextMeta]_vars

----------------------------------------------------------------------------
\* Dot notations: MongoModel._parse_dot_notation
\*
\* A dot notation is the sequence of the keys that name.split('.') gives,
\* and a key is the sequence of its lexical pieces: 'f1' is <<"f1">>, '0' is
\* <<"0">>, '$' is <<"$">>, '$[]' is <<"$", "[", "]">>, '$[foobar]' is
\* <<"$", "[", "foobar", "]">>, '$a' is <<"$", "a">> and '' is <<>>.

Punctuation == {"$", "[", "]"}
DigitPieces == {"0"}

\* str.isidentifier() holding of a number too, str.isdigit() of none.
isidentifier_OrDigit(key) == Len(key) = 1 /\ key[1] \notin Punctuation
isdigit_Never(key) == FALSE

\* str.isidentifier(), str.isdigit()
isidentifier(key) == Len(key) = 1 /\ key[1] \notin Punctuation \cup DigitPieces
isdigit(key) == Len(key) = 1 /\ key[1] \in DigitPieces

\* name.startswith('$['), name.endswith(']')
startswith_placeholder(name) == Len(name) >= 2 /\ name[1] = "$" /\ name[2] = "["
endswith_bracket(name) == Len(name) >= 1 /\ name[Len(name)] = "]"

\* _is_array_placeholder reading "(A or B) and C".
is_array_placeholder_OrFirst(name) ==
    (name = <<"$">> \/ startswith_placeholder(name)) /\ endswith_bracket(name)

\* MongoModel._is_array_placeholder
is_array_placeholder(name) ==
    name = <<"$">> \/ (startswith_placeholder(name) /\ endswith_bracket(name))

\* isinstance(field, cls) for the field classes
IsInstance(field, cls) ==
    \/ field.cls = cls
    \/ cls = "NumberField" /\ field.cls \in {"IntField", "FloatField"}
    \/ cls = "ListField" /\ field.cls = "ArrayField"
    \/ cls = "DictField" /\ field.cls = "EmbeddedField"

\* What _parse_dot_notation gives:
\*     [field |-> the field returned, err |-> the exception raised,
\*      warn |-> the warnings logged]
Parsed(field) == [field |-> field, err |-> "none", warn |-> <<>>]
ParseError == [field |-> Missing, err |-> "ValueError", warn |-> <<>>]

\* A key that is not a field of the embedded model raising a parse error.
not_defined_Raise(key, field) == ParseError

\* The branch of a key that is not a field of the embedded model: a warning
\* "... not defined in model ..." and an AnyField.
not_defined(key, field) ==
    [field |-> NewField("AnyField"), err |-> "none",
     warn |-> <<[key |-> key[1], model |-> field.model]>>]

\* The loop of _parse_dot_notation over the keys that are left.
RECURSIVE parse_keys(_, _)
parse_keys(field, keys) ==
    IF keys = <<>> THEN Parsed(field)
    ELSE LET key == Head(keys)
         IN IF IsInstance(field, "AnyField") THEN Parsed(NewField("AnyField"))
            ELSE IF field.cls = "DictField"
            THEN IF isidentifier(key) THEN Parsed(NewField("AnyField"))
                 ELSE ParseError
            ELSE IF field.cls = "ListField"
            THEN IF isdigit(key) \/ is_array_placeholder(key)
                 THEN Parsed(NewField("AnyField"))
                 ELSE ParseError
            ELSE IF isidentifier(key)
            THEN IF IsInstance(field, "EmbeddedField")
                 THEN IF key[1] \in FieldNames(field.model)
                      THEN parse_keys(FieldOf(field.model, key[1]), Tail(keys))
                      ELSE not_defined(key, field)
                 ELSE ParseError
            ELSE IF isdigit(key) \/ is_array_placeholder(key)
            THEN IF IsInstance(field, "ArrayField")
                 THEN parse_keys(field.field, Tail(keys))
                 ELSE ParseError
            ELSE ParseError

\* cls._parse_dot_notation(name)
parse_dot_notation(cls, name) == parse_keys(RootField(cls), name)

----------------------------------------------------------------------------
\* _parse_dot_notation on its own (specification SpecPath)

\* Largest number of keys of a dot notation.
MaxKeys == 3

PathKeys ==
    {<<f>> : f \in FieldNames("MainDotNotationModel")}
    \cup {<<"foo">>, <<"0">>, <<"$">>, <<"$", "[", "]">>,
          <<"$", "[", "foobar", "]">>, <<"$", "a">>, <<"$", "]">>, <<>>}

DotNotations == UNION {[1..n -> PathKeys] : n \in 1..MaxKeys}

InitPath ==
    /\ pt_name \in DotNotations
    /\ pt_field = Missing
    /\ pt_err = "none"
    /\ pt_warn = <<>>
    /\ pt_done = FALSE
    /\ DocIdle
    /\ IdxIdle
    /\ ConvIdle
    /\ MetaIdle
    /\ UpdIdle
    /\ OtherIdle

\* MainDotNotationModel._parse_dot_notation(name)
ParseDotNotation ==
    /\ ~pt_done
    /\ LET r == parse_dot_notation("MainDotNotationModel", pt_name)
       IN /\ pt_field' = r.field
          /\ pt_err' = r.err
          /\ pt_warn' = r.warn
    /\ pt_done' = TRUE
    /\ UNCHANGED <<pt_name, docvars, idxvars, convvars, metavars, updvars, wrvars, swvars, logvars>>

NextPath == ParseDotNotation

SpecPath == InitPath /\ [][NextPath]_vars

----------------------------------------------------------------------------
\* Update documents: MongoModel._get_clean_update and update_one
\* (specification SpecUpd)
\*
\* An update document {op: {notation: value}} is a Dict of the operators,
\* each with the Dict of its notations.

\* The second argument of check_dot_notation for an operator that is only
\* checked, "none" where there is none; '$mul' is not checked for its kind.
expected_field_type_NoMul(operator) ==
    CASE operator \in {"$pop", "$pull", "$pullAll"} -> "ListField"
      [] operator \in {"$inc"} -> "NumberField"
      [] operator = "$currentDate" -> "DateTimeField"
      [] OTHER -> "none"

\* The second argument of check_dot_notation for an operator that is only
\* checked, "none" where there is none.
expected_field_type(operator) ==
    CASE operator \in {"$pop", "$pull", "$pullAll"} -> "ListField"
      [] operator \in {"$inc", "$mul"} -> "NumberField"
      [] operator = "$currentDate" -> "DateTimeField"
      [] OTHER -> "none"

CheckedOps ==
    {"$pop", "$pull", "$pullAll", "$inc", "$mul", "$currentDate",
     "$min", "$max", "$rename", "$unset"}

\* The outcome of cleaning one value: [value |-> ..., err |-> ...]
Cleaned(value) == [value |-> value, err |-> "none"]
Rejected(value, e) == [value |-> value, err |-> e]

\* field.validate(new_value) unless validation is bypassed, for a value
\* and what field.convert gave for it.
validate_value(field, value, new_value, bypass_validation) ==
    IF IsRaise(new_value) THEN Rejected(value, new_value.v)
    ELSE IF ~bypass_validation /\ validate(field, new_value) # "none"
    THEN Rejected(value, "ValidationError")
    ELSE Cleaned(new_value)

\* clean_value converting without validating.
clean_value_NoValidate(field, value, bypass_validation) ==
    validate_value(field, value, convert(field, value), TRUE)

\* new_value = field.convert(value); field.validate(new_value) unless
\* validation is bypassed
clean_value(field, value, bypass_validation) ==
    validate_value(field, value, convert(field, value), bypass_validation)

\* item_field.validate(new_value) for every new value unless validation is
\* bypassed; value['$each'] = new_values
validate_each(itemfield, value, new_values, bypass_validation) ==
    IF \E i \in 1..Len(new_values) : IsRaise(new_values[i])
    THEN Rejected(value, FirstRaise(new_values).v)
    ELSE IF ~bypass_validation
            /\ \E i \in 1..Len(new_values) :
                  validate(itemfield, new_values[i]) # "none"
    THEN Rejected(value, "ValidationError")
    ELSE Cleaned(Put(value, "$each", List(new_values)))

\* The '$each' branch: every item is converted, then every item validated.
clean_each(itemfield, value, bypass_validation) ==
    validate_each(itemfield, value,
                  [i \in 1..Len(Get(value, "$each").v) |->
                      convert(itemfield, Get(value, "$each").v[i])],
                  bypass_validation)

\* The branch of '$push' and '$addToSet' for one notation.
clean_push(field, value, bypass_validation) ==
    IF ~IsInstance(field, "ListField") THEN Rejected(value, "ValidationError")
    ELSE IF ~IsInstance(field, "ArrayField") THEN Cleaned(value)
    ELSE IF value.t = "dict" /\ Has(value, "$each")
    THEN clean_each(field.field, value, bypass_validation)
    ELSE clean_value(field.field, value, bypass_validation)

\* check_dot_notation for one notation.
check_dot_notation(operator, field, value) ==
    IF expected_field_type(operator) # "none"
       /\ ~IsInstance(field, expected_field_type(operator))
    THEN Rejected(value, "ValidationError")
    ELSE Cleaned(value)

\* The outcome of cleaning a value, with the warnings of its notation.
WithWarnings(r, warn) == [value |-> r.value, err |-> r.err, warn |-> warn]

\* One notation of one operator, after cls._parse_dot_notation(notation).
clean_parsed(parsed, operator, value, bypass_validation) ==
    IF parsed.err # "none"
    THEN [value |-> value, err |-> parsed.err, warn |-> parsed.warn]
    ELSE WithWarnings(
            CASE operator = "$set" ->
                    clean_value(parsed.field, value, bypass_validation)
              [] operator \in {"$push", "$addToSet"} ->
                    clean_push(parsed.field, value, bypass_validation)
              [] OTHER -> check_dot_notation(operator, parsed.field, value),
            parsed.warn)

\* One notation of one operator:
\*     [value |-> ..., err |-> ..., warn |-> ...]
clean_notation(cls, operator, notation, value, bypass_validation) ==
    clean_parsed(parse_dot_notation(cls, notation), operator, value,
                 bypass_validation)

\* The position of the first item of a sequence of outcomes that raised,
\* its length where none did.
FirstRaised(outcomes) ==
    IF \A i \in 1..Len(outcomes) : outcomes[i].err = "none" THEN Len(outcomes)
    ELSE CHOOSE i \in 1..Len(outcomes) :
            /\ outcomes[i].err # "none"
            /\ \A j \in 1..(i - 1) : outcomes[j].err = "none"

\* The error and the warnings of a loop that stops at the first outcome
\* that raised.
RaisedIn(outcomes) ==
    IF outcomes = <<>> THEN "none" ELSE outcomes[FirstRaised(outcomes)].err
WarnedIn(outcomes) ==
    Flatten([i \in 1..FirstRaised(outcomes) |-> outcomes[i].warn])

\* The document of one operator after the loop over its notations.
CleanedDoc(doc, cleaned) ==
    [doc |-> Dict([i \in 1..Len(doc.v) |-> Item(doc.v[i].k, cleaned[i].value)]),
     err |-> RaisedIn(cleaned),
     warn |-> WarnedIn(cleaned)]

\* The loop over the notations of one operator:
\*     [doc |-> ..., err |-> ..., warn |-> ...]
clean_doc(cls, operator, doc, bypass_validation) ==
    CleanedDoc(doc, [i \in 1..Len(doc.v) |->
                        clean_notation(cls, operator, doc.v[i].k, doc.v[i].v,
                                       bypass_validation)])

\* The update document after the loop over its operators.
CleanedUpdate(update, cleaned) ==
    [update |-> Dict([i \in 1..Len(update.v) |->
                         Item(update.v[i].k, cleaned[i].doc)]),
     err |-> RaisedIn(cleaned),
     warn |-> WarnedIn(cleaned)]

\* The loop over the operators of an update document; an operator that is
\* not one of the thirteen is left as it is.
clean_ops(cls, update, bypass_validation) ==
    CleanedUpdate(update,
        [i \in 1..Len(update.v) |->
            IF update.v[i].k \in {"$set", "$push", "$addToSet"} \cup CheckedOps
            THEN clean_doc(cls, update.v[i].k, update.v[i].v, bypass_validation)
            ELSE [doc |-> update.v[i].v, err |-> "none", warn |-> <<>>]])

\* cls._get_clean_update(update, bypass_validation): an aggregation pipeline
\* (a list) is returned as it is.
get_clean_update(cls, update, bypass_validation) ==
    IF update.t # "dict" THEN [update |-> update, err |-> "none", warn |-> <<>>]
    ELSE clean_ops(cls, update, bypass_validation)

\* An update document with one operator and one notation.
Update(operator, notation, value) == Dict(<<Item(operator, Dict(<<Item(notation, value)>>))>>)
Each(items) == Dict(<<Item("$each", List(items))>>)

UpdateOps ==
    {"$set", "$push", "$addToSet", "$setOnInsert"} \cup CheckedOps

\* A dot notation from its keys, each of one piece.
Notation(keys) == [i \in 1..Len(keys) |-> <<keys[i]>>]

UpdateNotations(cls) ==
    IF cls = "Post"
    THEN {Notation(<<"user">>), Notation(<<"user", "first_name">>),
          Notation(<<"title">>), Notation(<<"comments">>),
          Notation(<<"comments", "0">>),
          <<<<"comments">>, <<"$", "[", "]">>, <<"extra">>>>,
          Notation(<<"tags">>), Notation(<<"created_on">>),
          Notation(<<"foo">>), Notation(<<"user", "foo">>),
          Notation(<<"title", "foo">>)}
    ELSE {Notation(<<"f5">>), Notation(<<"f6">>), Notation(<<"f4">>),
          Notation(<<"f4", "a">>), Notation(<<"f2", "f2">>),
          Notation(<<"f2", "f2", "0">>), Notation(<<"f3">>)}

UserOk == Dict(<<Item("first_name", Str(1)), Item("last_name", Str(2))>>)
UserBad == Dict(<<Item("first_name", Num(1)), Item("last_name", Str(2))>>)
CommentOk == Dict(<<Item("user", UserOk), Item("content", Str(1))>>)
CommentBad == Dict(<<Item("user", UserBad)>>)
\* Comment(user=..., content=...) as the constructor builds it.
CommentInstance ==
    ModelInstance("Comment", EmbeddedConvert(RootField("Comment"), CommentOk))

UpdateValues ==
    {Str(1), Num(1), UserOk, UserBad, CommentOk, CommentBad, CommentInstance,
     List(<<Str(1)>>), List(<<Num(1)>>),
     Each(<<>>), Each(<<Str(1), Str(2)>>), Each(<<Str(1), Num(1)>>),
     Each(<<CommentInstance, CommentOk>>), Each(<<CommentOk, CommentBad>>)}

InitUpd ==
    /\ up_cls \in {"Post", "MainDotNotationModel"}
    /\ up_update \in {List(<<>>)}
          \cup {Update(o, n, v) : o \in UpdateOps,
                                  n \in UpdateNotations(up_cls),
                                  v \in UpdateValues}
    /\ up_bypass \in BOOLEAN
    /\ up_err = "none"
    /\ up_warn = <<>>
    /\ up_call = Missing
    /\ up_done = FALSE
    /\ DocIdle
    /\ IdxIdle
    /\ ConvIdle
    /\ MetaIdle
    /\ PathIdle
    /\ OtherIdle

\* cls.update_one(filter, update, bypass_document_validation=...): the
\* update is cleaned and then handed to collection.update_one.
UpdateOneCall ==
    /\ ~up_done
    /\ LET r == get_clean_update(up_cls, up_update, up_bypass)
       IN /\ up_err' = r.err
          /\ up_warn' = r.warn
          /\ up_call' = IF r.err = "none" THEN r.update ELSE Missing
    /\ up_done' = TRUE
    /\ UNCHANGED <<up_cls, up_update, up_bypass,
                   docvars, idxvars, convvars, metavars, pathvars,
                   wrvars, swvars, logvars>>

NextUpd == UpdateOneCall

SpecUpd == InitUpd /\ [][NextUpd]_vars

----------------------------------------------------------------------------
\* The document instance of a model with an embedded field and an array of
\* embedded documents: Post, with user: User and comments: List[Comment]

\* obj.<name> = value, on an instance of the model
ModelSetAttr(model, name, value) ==
    LET r == setattr(inst, data, model, name, value)
    IN /\ inst' = r.inst
       /\ data' = r.data
       /\ err' = r.err
       /\ call' = NoCall
       /\ UNCHANGED state
       /\ Done("setattr", name, FALSE)

\* del obj.<name>
ModelDelAttr(model, name) ==
    LET r == delattr(inst, data, model, name)
    IN /\ inst' = r.inst
       /\ data' = r.data
       /\ err' = r.err
       /\ call' = NoCall
       /\ UNCHANGED state
       /\ Done("delattr", name, FALSE)

\* obj.<name>
ModelGetAttr(model, name) ==
    LET r == getattr(inst, data, model, name)
    IN /\ inst' = r.inst
       /\ data' = r.data
       /\ err' = r.err
       /\ call' = NoCall
       /\ UNCHANGED state
       /\ Done("getattr", name, FALSE)

\* NestedResult with a nested instance that is not the one obj caches: the
\* tracker of the cached instance stays as it was.
NestedResult_Detached(g, key, r) ==
    [inst |-> g.inst, data |-> Put(g.data, key, r.data), err |-> r.err]

\* The instance and the clean data of obj after a statement on the nested
\* instance obj.<field>, whose _data is the dict held under the field's key.
NestedResult(g, key, r) ==
    [inst |-> [g.inst EXCEPT !.cached[key] = r.inst],
     data |-> Put(g.data, key, r.data),
     err |-> r.err]

\* obj.<field>.<name> = value
nested_setattr(g, key, sub, name, value) ==
    IF g.err # "none" THEN g
    ELSE NestedResult(g, key,
             setattr(g.inst.cached[key], Get(g.data, key), sub, name, value))

\* del obj.<field>.<name>
nested_delattr(g, key, sub, name) ==
    IF g.err # "none" THEN g
    ELSE NestedResult(g, key,
             delattr(g.inst.cached[key], Get(g.data, key), sub, name))

NestedSetAttr(model, field, name, value) ==
    LET r == nested_setattr(getattr(inst, data, model, field),
                            field_name(model, field),
                            FieldOf(model, field).model, name, value)
    IN /\ inst' = r.inst
       /\ data' = r.data
       /\ err' = r.err
       /\ call' = NoCall
       /\ UNCHANGED state
       /\ Done("sub.setattr", name, FALSE)

NestedDelAttr(model, field, name) ==
    LET r == nested_delattr(getattr(inst, data, model, field),
                            field_name(model, field),
                            FieldOf(model, field).model, name)
    IN /\ inst' = r.inst
       /\ data' = r.data
       /\ err' = r.err
       /\ call' = NoCall
       /\ UNCHANGED state
       /\ Done("sub.delattr", name, FALSE)

\* The instance and the clean data of obj after a statement on the instance
\* obj.<field>[k - 1], whose _data is the k-th dict of the list held under
\* the field's key.
ItemResult(g, key, k, r) ==
    [inst |-> [g.inst EXCEPT !.cached[key].v[k] = r.inst],
     data |-> Put(g.data, key, List([Get(g.data, key).v EXCEPT ![k] = r.data])),
     err |-> r.err]

\* obj.<field>[k - 1].<name> = value
item_setattr(g, key, k, sub, name, value) ==
    IF g.err # "none" THEN g
    ELSE IF k > Len(Get(g.data, key).v) THEN [g EXCEPT !.err = "IndexError"]
    ELSE ItemResult(g, key, k,
             setattr(g.inst.cached[key].v[k], Get(g.data, key).v[k],
                     sub, name, value))

\* del obj.<field>[k - 1].<name>
item_delattr(g, key, k, sub, name) ==
    IF g.err # "none" THEN g
    ELSE IF k > Len(Get(g.data, key).v) THEN [g EXCEPT !.err = "IndexError"]
    ELSE ItemResult(g, key, k,
             delattr(g.inst.cached[key].v[k], Get(g.data, key).v[k], sub, name))

ItemSetAttr(model, field, k, name, value) ==
    LET r == item_setattr(getattr(inst, data, model, field),
                          field_name(model, field), k,
                          FieldOf(model, field).field.model, name, value)
    IN /\ inst' = r.inst
       /\ data' = r.data
       /\ err' = r.err
       /\ call' = NoCall
       /\ UNCHANGED state
       /\ Done("item.setattr", name, FALSE)

ItemDelAttr(model, field, k, name) ==
    LET r == item_delattr(getattr(inst, data, model, field),
                          field_name(model, field), k,
                          FieldOf(model, field).field.model, name)
    IN /\ inst' = r.inst
       /\ data' = r.data
       /\ err' = r.err
       /\ call' = NoCall
       /\ UNCHANGED state
       /\ Done("item.delattr", name, FALSE)

\* The comments of a post: at most MaxComments of them.
MaxComments == 1

PostComments == {Dict(<<Item("content", Str(1))>>)}

CommentLists ==
    {List(<<>>)} \cup UNION {{List(cs) : cs \in [1..n -> PostComments]} :
                               n \in 1..MaxComments}

\* Documents of the posts collection.
PostDocs ==
    {Dict(<<Item("_id", Oid(1)),
            Item("user", Dict(<<Item("first_name", Str(1))>>)),
            Item("comments", cs)>>) : cs \in CommentLists}

\* The values assigned to the fields of a post, of its user and of one of
\* its comments: values of the declared type, and an int where the type is
\* another one.
PostInputs(name) ==
    CASE name = "user" -> {Dict(<<Item("first_name", Str(2))>>), Num(1)}
      [] name = "comments" -> {List(<<>>), List(<<Dict(<<Item("content", Str(2))>>)>>),
                               Num(1)}
      [] OTHER -> {Str(2), Num(1)}

\* Post.from_document(doc)
InitPost ==
    /\ \E doc \in PostDocs : data = doc
    /\ state = "from_document"
    /\ op = Op("from_document", "", FALSE)
    /\ inst = NewInst
    /\ err = "none"
    /\ call = NoCall
    /\ tick = 0
    /\ IdxIdle
    /\ ConvIdle
    /\ MetaIdle
    /\ PathIdle
    /\ UpdIdle
    /\ OtherIdle

NextPost ==
    \/ \E name \in {"user", "comments"} :
          \E value \in PostInputs(name) : ModelSetAttr("Post", name, value)
    \/ \E name \in {"user", "comments"} : ModelDelAttr("Post", name)
    \/ \E name \in {"user", "comments"} : ModelGetAttr("Post", name)
    \/ \E value \in PostInputs("first_name") :
          NestedSetAttr("Post", "user", "first_name", value)
    \/ NestedDelAttr("Post", "user", "first_name")
    \/ \E k \in 1..MaxComments : \E value \in PostInputs("content") :
          ItemSetAttr("Post", "comments", k, "content", value)
    \/ \E k \in 1..MaxComments : ItemDelAttr("Post", "comments", k, "content")
    \/ \E full_update \in BOOLEAN : Save(full_update)

SpecPost == InitPost /\ [][NextPost]_vars

----------------------------------------------------------------------------
\* The document instance of a model with aliases: AliasMain, whose fields
\* f1 and f2 are stored under '1f' and '2f'

\* Documents of the collection: the fields under their store keys.
AliasDocs ==
    {Dict(<<Item("_id", Oid(1))>> \o f1 \o f2 \o f3) :
        f1 \in {<<>>, <<Item("1f", Num(1))>>},
        f2 \in {<<>>, <<Item("2f", Dict(<<>>))>>,
                <<Item("2f", Dict(<<Item("1f", Num(1))>>))>>},
        f3 \in {<<>>} \cup {<<Item("f3", x)>> : x \in Strs}}

\* The values assigned: each of the type that the field declares.
AliasInputs(model, name) ==
    CASE hint_to_field(model, name) = "IntField" -> {Num(1), Num(2)}
      [] hint_to_field(model, name) = "EmbeddedField" ->
            {Dict(<<Item("f1", Num(2))>>)}
      [] OTHER -> Strs

\* AliasMain.from_document(doc)
InitAlias ==
    /\ \E doc \in AliasDocs : data = doc
    /\ state = "from_document"
    /\ op = Op("from_document", "", FALSE)
    /\ inst = NewInst
    /\ err = "none"
    /\ call = NoCall
    /\ tick = 0
    /\ IdxIdle
    /\ ConvIdle
    /\ MetaIdle
    /\ PathIdle
    /\ UpdIdle
    /\ OtherIdle

NextAlias ==
    \/ \E name \in FieldNames("AliasMain") :
          \E value \in AliasInputs("AliasMain", name) :
              ModelSetAttr("AliasMain", name, value)
    \/ \E name \in FieldNames("AliasMain") : ModelDelAttr("AliasMain", name)
    \/ ModelGetAttr("AliasMain", "f2")
    \/ \E value \in AliasInputs("AliasSub", "f1") :
          NestedSetAttr("AliasMain", "f2", "f1", value)
    \/ NestedDelAttr("AliasMain", "f2", "f1")
    \/ \E full_update \in BOOLEAN : Save(full_update)

SpecAlias == InitAlias /\ [][NextAlias]_vars

----------------------------------------------------------------------------
\* The insert and replace methods of CollectionMixin, called on Post

WriteMethods == {"insert_one", "insert_many", "replace_one", "find_one_and_replace"}

\* [cls._get_clean_data(document, ...) for document in documents]: what the
\* cleaning of each document gives, up to the first one that raises.
clean_documents(cls, documents, bypass_validation) ==
    [k \in 1..Len(documents) |->
        get_clean_data(cls, documents[k], bypass_validation)]

\* The exception that leaves the list comprehension, or "none".
FirstError(cleaned) ==
    IF \A k \in 1..Len(cleaned) : cleaned[k].err = "none" THEN "none"
    ELSE cleaned[CHOOSE k \in 1..Len(cleaned) :
                    /\ cleaned[k].err # "none"
                    /\ \A j \in 1..(k - 1) : cleaned[j].err = "none"].err

\* The call on cls.get_collection(): the method, the documents and the
\* bypass_document_validation passed on (find_one_and_replace passes none).
WriteCall(method, docs, bypass_validation) ==
    [op |-> method, docs |-> docs,
     bypass |-> bypass_validation /\ method # "find_one_and_replace"]

\* A method that sends the documents cleaned before the one that raised.
WriteOutcome_SendCleaned(method, bypass_validation, cleaned) ==
    [err |-> FirstError(cleaned),
     call |-> WriteCall(method,
                 [k \in 1..Len(SelectSeq(cleaned, LAMBDA r : r.err = "none")) |->
                     SelectSeq(cleaned, LAMBDA r : r.err = "none")[k].data],
                 bypass_validation)]

\* The outcome of the method given what the cleaning of its documents gave.
WriteOutcome(method, bypass_validation, cleaned) ==
    IF FirstError(cleaned) # "none"
    THEN [err |-> FirstError(cleaned), call |-> Missing]
    ELSE [err |-> "none",
          call |-> WriteCall(method, [k \in 1..Len(cleaned) |-> cleaned[k].data],
                             bypass_validation)]

\* cls.insert_one / insert_many / replace_one / find_one_and_replace
write(cls, method, documents, bypass_validation) ==
    WriteOutcome(method, bypass_validation,
                 clean_documents(cls, documents, bypass_validation))

\* The documents given: a post whose user has a first name of the declared
\* type, one whose user has an int as first name, one whose user is an int.
WriteDocs ==
    {Dict(<<Item("user", u), Item("title", x)>>) :
        u \in {Dict(<<Item("first_name", Str(1))>>),
               Dict(<<Item("first_name", Num(1))>>),
               Num(1)},
        x \in Strs}

\* The longest list given to insert_many.
MaxDocs == 2

InitWrite ==
    /\ wr_op \in WriteMethods
    /\ wr_docs \in UNION {[1..n -> WriteDocs] :
                            n \in IF wr_op = "insert_many" THEN 1..MaxDocs ELSE {1}}
    /\ wr_bypass \in BOOLEAN
    /\ wr_err = "none"
    /\ wr_call = Missing
    /\ wr_done = FALSE
    /\ DocIdle
    /\ IdxIdle
    /\ ConvIdle
    /\ MetaIdle
    /\ PathIdle
    /\ UpdIdle
    /\ SwIdle
    /\ LogIdle

\* Post.<method>(..., bypass_document_validation=wr_bypass)
Write ==
    /\ ~wr_done
    /\ LET r == write("Post", wr_op, wr_docs, wr_bypass)
       IN /\ wr_err' = r.err
          /\ wr_call' = r.call
    /\ wr_done' = TRUE
    /\ UNCHANGED <<wr_op, wr_docs, wr_bypass, docvars, idxvars, convvars,
                   metavars, pathvars, updvars, swvars, logvars>>

NextWrite == Write

SpecWrite == InitWrite /\ [][NextWrite]_vars

----------------------------------------------------------------------------
\* The binding of a model class to a database and a collection, and the
\* context managers switch_db and switch_collection (class User(Model) of
\* tests/test_helper.py)

\* The databases of the client.
NumDbs == 2
Dbs == 1..NumDbs

CollectionNames == {"users", "members"}

\* db.get_collection(name)
Coll(db, name) == [t |-> "coll", db |-> db, name |-> name]

Collections == {Coll(db, name) : db \in Dbs, name \in CollectionNames}

\* The outcome of a statement on the binding:
\*     [db |-> cls._db, coll |-> cls._collection, ret |-> ..., err |-> ...]
Bound(db, coll, ret, exc) == [db |-> db, coll |-> coll, ret |-> ret, err |-> exc]

\* The end of set_collection once cls._collection is assigned: with
\* auto_build_index, _build_indexes() runs and may fail in the store.
built(db, coll, fails) ==
    Bound(db, coll, Missing, IF fails THEN "OperationFailure" ELSE "none")

\* MongoModel.set_collection(collection); fails: whether a store call of
\* _build_indexes fails.
set_collection(db, coll, collection, fails) ==
    IF collection.t = "coll" THEN built(db, collection, fails)
    ELSE IF collection.t = "str" THEN built(db, Coll(db, collection.v), fails)
    ELSE Bound(db, coll, Missing, "ValueError")

\* MongoModel.set_db(db)
set_db(db, coll, new_db) == Bound(new_db, coll, Missing, "none")

\* MongoModel.get_collection()
get_collection(db, coll, fails) ==
    IF coll = Missing
    THEN [built(db, Coll(db, "users"), fails) EXCEPT
             !.ret = IF fails THEN Missing ELSE Coll(db, "users")]
    ELSE Bound(db, coll, coll, "none")

\* One open block: the context manager and its local variables.
Frame(kind, prev_db, prev_coll) ==
    [kind |-> kind, prev_db |-> prev_db, prev_coll |-> prev_coll]

\* A statement that raised before the block was entered pushes no frame.
Entered(stack, r, frame) == IF r.err = "none" THEN Append(stack, frame) ELSE stack

\* switch_collection up to its yield, after prev = model.get_collection().
enter_switch_collection(g, collection, fails) ==
    IF g.err # "none" THEN g
    ELSE set_collection(g.db, g.coll, collection, fails)

\* switch_db up to its yield, after prev_coll = model.get_collection().
enter_switch_db(g, db, fails) ==
    IF g.err # "none" THEN g
    ELSE set_collection(set_db(g.db, g.coll, db).db, g.coll,
                        [t |-> "str", v |-> g.coll.name], fails)

\* An exit that restores the binding only when the block raised nothing.
exit_block_NoFinally(db, coll, frame, raised, fails) ==
    IF raised THEN Bound(db, coll, Missing, "BodyError")
    ELSE set_collection(IF frame.kind = "switch_db" THEN frame.prev_db ELSE db,
                        coll, frame.prev_coll, fails)

\* The finally clause of switch_collection and switch_db; raised: whether
\* the block is left by an exception.
exit_block(db, coll, frame, raised, fails) ==
    [set_collection(IF frame.kind = "switch_db" THEN frame.prev_db ELSE db,
                    coll, frame.prev_coll, fails)
       EXCEPT !.err = IF @ = "none" /\ raised THEN "BodyError" ELSE @]

\* The deepest nesting of blocks.
MaxDepth == 1

SwOp(name, arg, raised) == [name |-> name, arg |-> arg, raised |-> raised]

InitSwitch ==
    /\ sw_db \in Dbs
    /\ sw_coll = Missing
    /\ sw_stack = <<>>
    /\ sw_op = SwOp("set_db", sw_db, FALSE)
    /\ sw_err = "none"
    /\ DocIdle
    /\ IdxIdle
    /\ ConvIdle
    /\ MetaIdle
    /\ PathIdle
    /\ UpdIdle
    /\ WrIdle
    /\ LogIdle

Switched(r, stack, name, arg, raised) ==
    /\ sw_db' = r.db
    /\ sw_coll' = r.coll
    /\ sw_err' = r.err
    /\ sw_stack' = stack
    /\ sw_op' = SwOp(name, arg, raised)
    /\ UNCHANGED <<docvars, idxvars, convvars, metavars, pathvars, updvars,
                   wrvars, logvars>>

\* with switch_collection(User, collection):
EnterSwitchCollection(collection, get_fails, fails) ==
    /\ Len(sw_stack) < MaxDepth
    /\ LET g == get_collection(sw_db, sw_coll, get_fails)
           r == enter_switch_collection(g, collection, fails)
       IN Switched(r, Entered(sw_stack, r, Frame("switch_collection", g.db, g.ret)),
                   "switch_collection", collection, FALSE)

\* with switch_db(User, db):
EnterSwitchDb(db, get_fails, fails) ==
    /\ Len(sw_stack) < MaxDepth
    /\ LET g == get_collection(sw_db, sw_coll, get_fails)
           r == enter_switch_db(g, db, fails)
       IN Switched(r, Entered(sw_stack, r, Frame("switch_db", g.db, g.ret)),
                   "switch_db", db, FALSE)

\* The innermost block is left, normally or by an exception.
ExitBlock(raised, fails) ==
    /\ sw_stack # <<>>
    /\ Switched(exit_block(sw_db, sw_coll, sw_stack[Len(sw_stack)], raised, fails),
                SubSeq(sw_stack, 1, Len(sw_stack) - 1),
                "exit", sw_stack[Len(sw_stack)].kind, raised)

\* User.set_collection(collection), inside or outside of a block
SetCollection(collection, fails) ==
    Switched(set_collection(sw_db, sw_coll, collection, fails), sw_stack,
             "set_collection", collection, FALSE)

\* User.get_collection()
GetCollection(fails) ==
    Switched(get_collection(sw_db, sw_coll, fails), sw_stack,
             "get_collection", Missing, FALSE)

\* What set_collection and switch_collection are given: a name, a
\* collection, and an int.
CollectionArgs ==
    {[t |-> "str", v |-> name] : name \in CollectionNames}
       \cup Collections \cup {Num(1)}

NextSwitch ==
    \/ \E collection \in CollectionArgs, get_fails \in BOOLEAN, fails \in BOOLEAN :
          EnterSwitchCollection(collection, get_fails, fails)
    \/ \E db \in Dbs, get_fails \in BOOLEAN, fails \in BOOLEAN :
          EnterSwitchDb(db, get_fails, fails)
    \/ \E raised \in BOOLEAN, fails \in BOOLEAN : ExitBlock(raised, fails)
    \/ \E collection \in CollectionArgs, fails \in BOOLEAN :
          SetCollection(collection, fails)
    \/ \E fails \in BOOLEAN : GetCollection(fails)

SpecSwitch == InitSwitch /\ [][NextSwitch]_vars

----------------------------------------------------------------------------
\* The logger of utils: get_logger() and set_logger() called by threads.
\* A thread is switched between any two of the statements below; _logger is
\* "None", "default" (logging.getLogger('monom')) or "custom".

\* The calls each thread makes at most.
MaxCalls == 2

InitLog ==
    /\ LogIdle
    /\ DocIdle
    /\ IdxIdle
    /\ ConvIdle
    /\ MetaIdle
    /\ PathIdle
    /\ UpdIdle
    /\ WrIdle
    /\ SwIdle

\* A thread goes from one statement to the next one.
Goto(t, from, to) ==
    /\ lg_pc[t] = from
    /\ lg_pc' = [lg_pc EXCEPT ![t] = to]
    /\ UNCHANGED <<docvars, idxvars, convvars, metavars, pathvars, updvars,
                   wrvars, swvars>>

\* set_logger(logger): _logger = logger
SetLogger(t) ==
    /\ lg_calls[t] < MaxCalls
    /\ Goto(t, "idle", "idle")
    /\ lg_logger' = "custom"
    /\ lg_calls' = [lg_calls EXCEPT ![t] = @ + 1]
    /\ UNCHANGED <<lg_handlers, lg_lock, lg_ret>>

\* get_logger() is called
CallGetLogger(t) ==
    /\ lg_calls[t] < MaxCalls
    /\ Goto(t, "idle", "check")
    /\ lg_calls' = [lg_calls EXCEPT ![t] = @ + 1]
    /\ UNCHANGED <<lg_logger, lg_handlers, lg_lock, lg_ret>>

\* if _logger is None: _set_default_logger()
CheckLogger(t) ==
    /\ Goto(t, "check", IF lg_logger = "None" THEN "acquire" ELSE "return")
    /\ UNCHANGED <<lg_logger, lg_handlers, lg_lock, lg_ret, lg_calls>>

\* with _lock:
AcquireLock(t) ==
    /\ lg_lock = 0
    /\ Goto(t, "acquire", "assign")
    /\ lg_lock' = t
    /\ UNCHANGED <<lg_logger, lg_handlers, lg_ret, lg_calls>>

\* _logger = logging.getLogger(DEFAULT_LOGGER_NAME)
AssignDefault(t) ==
    /\ Goto(t, "assign", "add")
    /\ lg_logger' = "default"
    /\ UNCHANGED <<lg_handlers, lg_lock, lg_ret, lg_calls>>

\* _logger.addHandler(handler), with a handler made for this call; the
\* global may be another logger by now.
AddHandler(t) ==
    /\ Goto(t, "add", "release")
    /\ lg_handlers' = IF lg_logger = "default" THEN lg_handlers + 1 ELSE lg_handlers
    /\ UNCHANGED <<lg_logger, lg_lock, lg_ret, lg_calls>>

\* end of the with block
ReleaseLock(t) ==
    /\ Goto(t, "release", "return")
    /\ lg_lock' = 0
    /\ UNCHANGED <<lg_logger, lg_handlers, lg_ret, lg_calls>>

\* return _logger
ReturnLogger(t) ==
    /\ Goto(t, "return", "idle")
    /\ lg_ret' = [lg_ret EXCEPT ![t] = lg_logger]
    /\ UNCHANGED <<lg_logger, lg_handlers, lg_lock, lg_calls>>

NextLog ==
    \/ \E t \in Threads : SetLogger(t)
    \/ \E t \in Threads : CallGetLogger(t)
    \/ \E t \in Threads : CheckLogger(t)
    \/ \E t \in Threads : AcquireLock(t)
    \/ \E t \in Threads : AssignDefault(t)
    \/ \E t \in Threads : AddHandler(t)
    \/ \E t \in Threads : ReleaseLock(t)
    \/ \E t \in Threads : ReturnLogger(t)

SpecLog == InitLog /\ [][NextLog]_vars

----------------------------------------------------------------------------
\* Properties of the document instance (specification Spec)

States == {"before_save", "after_save", "from_document", "deleted"}

\* The instances of the document: the root and its cached nested instances.
RECURSIVE Instances(_)
Instances(i) == {i} \cup UNION {Instances(i.cached[k]) : k \in DOMAIN i.cached}

\* C1: whatever field assignments (rejected ones included) and deletions
\* were made, no field name is in the modified set and in the deleted set of
\* one instance at the same time.
C1_ModifiedDeletedDisjoint ==
    \A i \in Instances(inst) :
        Val(i.modified_fields) \cap Val(i.deleted_fields) = {}

\* C1 witness: an assignment to f1 was rejected while another field is in
\* the deleted set.
C1_Witness ==
    /\ op = Op("setattr", "f1", FALSE)
    /\ err = "ValidationError"
    /\ "f1" \in Val(inst.modified_fields)
    /\ "f2" \in Val(inst.deleted_fields)

\* C2: after _clear_tracked_fields() the combined modified set and the
\* combined deleted set are both empty.
C2_ClearEmptiesCombine ==
    op.name = "clear" => combine_tracked_fields(inst) = <<{}, {}>>

\* C4: the state is one of the four; a new instance is before_save, one built
\* from a store document is from_document; a successful save() moves
\* before_save to after_save and leaves the other states; a successful
\* delete() of an after_save or from_document instance gives deleted; no
\* operation leaves deleted or returns to before_save.
C4_StateMachine ==
    /\ [](/\ state \in States
          /\ op.name = "__init__" => state = "before_save"
          /\ op.name = "from_document" => state = "from_document")
    /\ [][/\ (op'.name = "save" /\ err' = "none")
               => state' = (IF state = "before_save" THEN "after_save" ELSE state)
          /\ (op'.name = "delete" /\ err' = "none"
                /\ state \in {"after_save", "from_document"})
               => state' = "deleted"
          /\ state = "deleted" => state' = "deleted"
          /\ state' = "before_save" => state = "before_save"]_vars

\* C4 witness: an instance built from a store document was saved with
\* success and is still from_document.
C4_Witness ==
    /\ state = "from_document"
    /\ op.name = "save"
    /\ err = "none"

\* C5: a save() without full_update in state after_save or from_document
\* with an _id sends one update filtered by the _id, whose $set maps exactly
\* the combined modified paths to their values in the clean data and whose
\* $unset names exactly the combined deleted paths (an operator is left out
\* when its set is empty), and the tracker is empty afterwards.
C5_PartialSave ==
    [][(/\ op'.name = "save"
        /\ ~op'.full
        /\ tick' # tick
        /\ state \in {"after_save", "from_document"}
        /\ pk(data) # Missing)
       => LET tracked == combine_tracked_fields(inst)
          IN /\ err' = "none"
             /\ \A field \in tracked[1] : HasDictItemWithDot(data, field)
             /\ call' = UpdateOne(pk(data),
                           (IF tracked[1] # {} THEN {"$set"} ELSE {})
                              \cup (IF tracked[2] # {} THEN {"$unset"} ELSE {}),
                           {<<field, get_dict_item_with_dot(data, field)>> :
                               field \in tracked[1]},
                           tracked[2])
             /\ combine_tracked_fields(inst') = <<{}, {}>>]_vars

\* C6: a change on a cached nested instance is reported as the path
\* <<containing field, nested field>>, and a field that was assigned as a
\* whole is reported as one top-level modified path with no modified path
\* beneath it.
C6_CombinePaths ==
    LET modified == combine_tracked_fields(inst)[1]
        deleted == combine_tracked_fields(inst)[2]
    IN /\ \A key \in DOMAIN inst.cached :
            /\ key \notin Val(inst.modified_fields)
                 => \A name \in Val(inst.cached[key].modified_fields) :
                       <<key, name>> \in modified
            /\ key \notin Val(inst.deleted_fields)
                 => \A name \in Val(inst.cached[key].deleted_fields) :
                       <<key, name>> \in deleted
       /\ \A name \in Val(inst.modified_fields) :
            /\ <<name>> \in modified
            /\ \A path \in modified : Len(path) > 1 => path[1] # name
       /\ (op.name = "setattr" /\ op.field = "f2")
            => /\ <<"f2">> \in modified
               /\ \A path \in modified : Len(path) > 1 => path[1] # "f2"
       /\ (op.name = "sub.setattr" /\ err # "AttributeError"
             /\ "f2" \notin Val(inst.modified_fields))
            => <<"f2", op.field>> \in modified
       /\ (op.name = "sub.delattr" /\ err # "AttributeError"
             /\ "f2" \notin Val(inst.deleted_fields))
            => <<"f2", op.field>> \in deleted

\* C6 witness: f2 was assigned while its cached nested instance has a
\* pending change of its own.
C6_Witness ==
    /\ op.name = "setattr"
    /\ op.field = "f2"
    /\ "f2" \in DOMAIN inst.cached
    /\ Val(inst.cached["f2"].modified_fields) # {}

\* C7: on a deleted instance a field assignment, a field deletion, a save()
\* and a delete() each raise, and the delete() sends nothing to the store.
C7_DeletedRejectsMutation ==
    [][(/\ state = "deleted"
        /\ tick' # tick
        /\ op'.name \in {"setattr", "delattr", "save", "delete"})
       => /\ err' # "none"
          /\ call' = NoCall]_vars

\* C8: save() on a deleted instance, delete() on an instance never saved,
\* and save() or delete() on an after_save or from_document instance without
\* an _id raise RuntimeError, send nothing to the store and leave the state,
\* the clean data and the tracker sets as they were.
C8_LifecycleErrors ==
    [][(/\ tick' # tick
        /\ \/ op'.name = "save" /\ state = "deleted"
           \/ op'.name = "delete" /\ state = "before_save"
           \/ /\ op'.name \in {"save", "delete"}
              /\ state \in {"after_save", "from_document"}
              /\ pk(data) = Missing)
       => /\ err' = "RuntimeError"
          /\ call' = NoCall
          /\ state' = state
          /\ data' = data
          /\ inst' = inst]_vars

\* C8 witness: delete() raised on an instance built from a document without
\* an _id, whose tracker holds a deletion.
C8_Witness ==
    /\ op.name = "delete"
    /\ err = "RuntimeError"
    /\ state = "from_document"
    /\ pk(data) = Missing
    /\ Val(inst.deleted_fields) # {}

\* The position of a declared field in the field definition order.
FieldIndex(model, name) ==
    CHOOSE i \in 1..Len(field_order(model)) : field_order(model)[i] = name

\* to_dict(): the clean data itself.
to_dict(d) == d

\* C13: the declared fields of to_dict() come in the order in which the
\* fields are declared, whatever assignments and deletions were made.
C13_ToDictOrder ==
    LET d == to_dict(data)
    IN \A i, j \in 1..Len(d.v) :
          (/\ i < j
           /\ d.v[i].k \in FieldNames("MainModel")
           /\ d.v[j].k \in FieldNames("MainModel"))
          => FieldIndex("MainModel", d.v[i].k) < FieldIndex("MainModel", d.v[j].k)

\* Whether a path is a strict dotted prefix of another one.
StrictPrefix(p, q) == Len(p) < Len(q) /\ SubSeq(q, 1, Len(p)) = p

\* C26: no path of one of the two sets of _combine_tracked_fields() is a
\* strict dotted prefix of a path of the other set.
C26_NoOverlappingPaths ==
    LET modified == combine_tracked_fields(inst)[1]
        deleted == combine_tracked_fields(inst)[2]
    IN \A p \in modified, q \in deleted : ~StrictPrefix(p, q) /\ ~StrictPrefix(q, p)


\* C27: a field assignment that is rejected leaves the clean data, the
\* cached nested instances, the modified set and the deleted set as they
\* were before the assignment.
C27_RejectedAssignmentNoChange ==
    [][(op'.name = "setattr" /\ err' # "none")
          => /\ data' = data
             /\ inst'.cached = inst.cached
             /\ Val(inst'.modified_fields) = Val(inst.modified_fields)
             /\ Val(inst'.deleted_fields) = Val(inst.deleted_fields)]_vars


----------------------------------------------------------------------------
\* Properties of the index reconciliation (specification SpecIdx)

\* The declared indexes as normalize_indexes hands them to the store.
Declared == normalize_indexes(meta_indexes, 1).out

\* The options of an index other than its key, version, namespace and name.
Options(index) == MapPop(MapPop(MapPop(MapPop(index, "key"), "v"), "ns"), "name")

\* The options that are compared for an index in the schema and in the
\* store: all but key, version, namespace and TTL; the name of a declared
\* index is its default name unless one is declared.
NonTtlOptions(index) ==
    LET o == MapPop(MapPop(MapPop(MapPop(index, "key"), "v"), "ns"),
                    "expireAfterSeconds")
    IN IF "name" \in DOMAIN o THEN o
       ELSE MapPut(o, "name", default_index_name(index["key"]))

Ttl(index) == MapGet(index, "expireAfterSeconds", 0)

\* C3: a second reconciliation with the same declared schema completes and
\* issues no create-index, drop-index or modify-index-option call.
C3_SecondRunIdempotent ==
    runs = 2 => (idx_err = "none" /\ idx_calls = <<>>)

Issued(o, name) ==
    \E i \in 1..Len(idx_calls') : idx_calls'[i].op = o /\ idx_calls'[i].name = name
Created(key) ==
    \E i \in 1..Len(idx_calls') :
        idx_calls'[i].op = "create_index" /\ idx_calls'[i].key = key
Modified(name, ttl) ==
    \E i \in 1..Len(idx_calls') :
        /\ idx_calls'[i].op = "collMod"
        /\ idx_calls'[i].name = name
        /\ idx_calls'[i].kw["expireAfterSeconds"] = ttl

\* C10: for an index in the schema and in the store with equal non-TTL
\* options: the TTLs differ and at least one side has a TTL => collMod with
\* the declared TTL, no drop, no create; the TTLs are equal => no call.
C10_TtlOnly ==
    [][(runs = 0 /\ runs' = 1)
       => \A i \in 1..Len(Declared) : \A ix \in store_indexes :
            (Declared[i]["key"] = ix["key"]
               /\ NonTtlOptions(Declared[i]) = NonTtlOptions(ix))
            => LET new_ttl == Ttl(Declared[i])
                   old_ttl == Ttl(ix)
               IN /\ (new_ttl # old_ttl /\ (new_ttl # 0 \/ old_ttl # 0))
                       => /\ Modified(ix["name"], new_ttl)
                          /\ ~Issued("drop_index", ix["name"])
                          /\ ~Created(ix["key"])
                  /\ new_ttl = old_ttl
                       => /\ ~Issued("collMod", ix["name"])
                          /\ ~Issued("drop_index", ix["name"])
                          /\ ~Created(ix["key"])]_vars

\* C10 as amended: the TTLs differ and both sides have a TTL => collMod with
\* the declared TTL, no drop, no create; the TTLs differ and one side has no
\* TTL => the index is dropped and created again; the TTLs are equal => no
\* call.
C10_TtlOnlyBothSides ==
    [][(runs = 0 /\ runs' = 1)
       => \A i \in 1..Len(Declared) : \A ix \in store_indexes :
            (Declared[i]["key"] = ix["key"]
               /\ NonTtlOptions(Declared[i]) = NonTtlOptions(ix))
            => LET new_ttl == Ttl(Declared[i])
                   old_ttl == Ttl(ix)
               IN /\ (new_ttl # old_ttl /\ new_ttl # 0 /\ old_ttl # 0)
                       => /\ Modified(ix["name"], new_ttl)
                          /\ ~Issued("drop_index", ix["name"])
                          /\ ~Created(ix["key"])
                  /\ (new_ttl # old_ttl /\ (new_ttl = 0 \/ old_ttl = 0))
                       => /\ ~Issued("collMod", ix["name"])
                          /\ Issued("drop_index", ix["name"])
                          /\ Created(ix["key"])
                  /\ new_ttl = old_ttl
                       => /\ ~Issued("collMod", ix["name"])
                          /\ ~Issued("drop_index", ix["name"])
                          /\ ~Created(ix["key"])]_vars

\* C10 witness: a reconciliation changed the TTL of an index by collMod.
C10_Witness ==
    /\ runs = 1
    /\ \E i \in 1..Len(idx_calls) :
          /\ idx_calls[i].op = "collMod"
          /\ \E ix \in store_indexes :
                /\ ix["name"] = idx_calls[i].name
                /\ Ttl(ix) = idx_calls[i].kw["expireAfterSeconds"]

\* C11: for an index in the schema and in the store whose non-TTL options
\* differ, the reconciliation issues a drop of the stored index by its stored
\* name, directly followed by a create with the declared key and the declared
\* options, the declared TTL included when one is declared, and no collMod.
C11_DropAndRecreate ==
    [][(runs = 0 /\ runs' = 1)
       => \A i \in 1..Len(Declared) : \A ix \in store_indexes :
            (Declared[i]["key"] = ix["key"]
               /\ NonTtlOptions(Declared[i]) # NonTtlOptions(ix))
            => /\ \E j \in 1..(Len(idx_calls') - 1) :
                     /\ idx_calls'[j] = DropIndex(ix["name"])
                     /\ idx_calls'[j + 1].op = "create_index"
                     /\ idx_calls'[j + 1].key = Declared[i]["key"]
                     /\ Options(idx_calls'[j + 1].kw) = Options(Declared[i])
                     /\ "name" \in DOMAIN Declared[i]
                          => idx_calls'[j + 1].kw["name"] = Declared[i]["name"]
               /\ \A j \in 1..Len(idx_calls') : idx_calls'[j].op # "collMod"
                     \/ idx_calls'[j].name \notin
                            {ix["name"], NonTtlOptions(Declared[i])["name"]}]_vars

\* C11 witness: a reconciliation dropped an index and created it again as
\* a unique index with a TTL.
C11_Witness ==
    /\ runs = 1
    /\ \E j \in 1..(Len(idx_calls) - 1) :
          /\ idx_calls[j].op = "drop_index"
          /\ idx_calls[j + 1].op = "create_index"
          /\ idx_calls[j + 1].key = <<[f |-> "a", d |-> 1]>>
          /\ "expireAfterSeconds" \in DOMAIN idx_calls[j + 1].kw
          /\ "unique" \in DOMAIN idx_calls[j + 1].kw
          /\ \E ix \in store_indexes :
                /\ ix["key"] = idx_calls[j + 1].key
                /\ Options(ix) = Options(idx_calls[j + 1].kw)

\* C29: no reconciliation, whatever indexes the schema declares, issues a
\* drop of the index '_id_'.
C29_IdIndexNeverDropped ==
    \A i \in 1..Len(idx_calls) : idx_calls[i] # DropIndex(<<"_id_">>)


----------------------------------------------------------------------------
\* Properties of the conversion (specification SpecConv)

\* A value without the _skip_validate marks: what == of two values compares.
RECURSIVE Unmarked(_)
Unmarked(x) ==
    IF x.t = "dict"
    THEN Dict([i \in 1..Len(x.v) |-> Item(x.v[i].k, Unmarked(x.v[i].v))])
    ELSE IF x.t = "list" THEN List([i \in 1..Len(x.v) |-> Unmarked(x.v[i])])
    ELSE x

\* C12: the clean data of an instance that cls(**kw) built passes the
\* validation of the schema, and _get_clean_data on it raises nothing and
\* returns data equal to it.
C12_ConvertIdempotent ==
    /\ [](cv_data # Missing => validate(RootField(cv_model), cv_data) = "none")
    /\ [][(cv_n = 1 /\ cv_op'.name = "_get_clean_data")
          => /\ cv_err' = "none"
             /\ Unmarked(cv_clean') = Unmarked(cv_data)]_vars

\* Whether a value is an instance of the embedded model of a field.
IsInstanceOf(field, value) == value.t = "model" /\ value.model = field.model

\* A list without the elements that are instances of the item model.
WithoutInstanceItems(field, value) ==
    IF field.cls = "ArrayField" /\ value.t = "list"
    THEN List(SelectSeq(value.v, LAMBDA x : ~IsInstanceOf(field.field, x)))
    ELSE value

\* Keyword arguments without the instances given for embedded fields and
\* for elements of arrays of embedded models.
WithoutInstances(model, raw) ==
    LET declared(it) == it.k \in FieldNames(model)
        kept == SelectSeq(raw.v, LAMBDA it :
                    ~(declared(it) /\ IsInstanceOf(FieldOf(model, it.k), it.v)))
    IN Dict([i \in 1..Len(kept) |->
                IF declared(kept[i])
                THEN Item(kept[i].k,
                          WithoutInstanceItems(FieldOf(model, kept[i].k), kept[i].v))
                ELSE kept[i]])

\* What the clean data holds for a given value where no exception was
\* raised: for an instance its clean data as it is, marked _skip_validate.
HoldsInstanceData(field, given, stored) ==
    /\ IsInstanceOf(field, given) => stored = SkipValidate(given.data)
    /\ (field.cls = "ArrayField" /\ given.t = "list")
         => \A i \in 1..Len(given.v) :
               IsInstanceOf(field.field, given.v[i])
                  => stored.v[i] = SkipValidate(given.v[i].data)

\* C15: an instance of the embedded model given for an embedded field, or as
\* an element of an array of embedded models, is converted to its clean data
\* as it is and is not validated: at construction and on field assignment
\* the exception raised is the one raised for the input without the
\* instances (none when only instances are given), whatever the clean data
\* of the instances holds.
C15_InstanceSkipsValidation ==
    /\ [](cv_op.name = "__new__"
            => /\ cv_err = from_dirty_data(cv_model,
                                           WithoutInstances(cv_model, cv_raw)).err
               /\ cv_err = "none"
                    => \A name \in FieldNames(cv_model) :
                          Has(cv_raw, name)
                             => HoldsInstanceData(
                                    FieldOf(cv_model, name), Get(cv_raw, name),
                                    Get(cv_data, field_name(cv_model, name))))
    /\ [][cv_op'.name = "setattr"
            => LET field == FieldOf(cv_model, cv_op'.field)
                   given == cv_op'.value
               IN /\ IsInstanceOf(field, given) => cv_err' = "none"
                  /\ ~IsInstanceOf(field, given)
                       => cv_err' = SetError(cv_model, cv_op'.field,
                                             WithoutInstanceItems(field, given))
                  /\ cv_err' = "none"
                       => HoldsInstanceData(field, given, Get(cv_data', field.name))]_vars

\* C15 witness: an instance whose clean data the nested schema rejects was
\* given at construction for the embedded field, and then in a list assigned
\* to the array field, and neither raised.
C15_Witness ==
    /\ cv_model = "ConvMain"
    /\ Has(cv_raw, "f2")
    /\ Get(cv_raw, "f2") = ModelInstance("ConvSub", Dict(<<Item("f", Num(1))>>))
    /\ cv_op.name = "setattr"
    /\ cv_op.field = "f3"
    /\ cv_op.value.t = "list"
    /\ Len(cv_op.value.v) = 2
    /\ cv_op.value.v[1] = ModelInstance("ConvSub", Dict(<<Item("f", Num(1))>>))
    /\ cv_err = "none"
    /\ Get(cv_data, "f2") = SkipValidate(Dict(<<Item("f", Num(1))>>))
    /\ Get(cv_data, "f3").v[1] = SkipValidate(Dict(<<Item("f", Num(1))>>))

----------------------------------------------------------------------------
\* Properties of the class definition (specification SpecMeta)

\* C14: in a class that was defined without an exception no two declared
\* fields have the same store key.
C14_AliasInjective ==
    (mt_done /\ mt_err = "none")
    => \A f, g \in FieldNames("MainModel") : f # g => mt_name[f] # mt_name[g]

----------------------------------------------------------------------------
\* Properties of update cleaning (specification SpecUpd)

\* The one operator, notation and value of the update given, the field its
\* notation resolves to, and the value handed to collection.update_one.
IsUpdate == up_done /\ up_update.t = "dict"
TheOperator == up_update.v[1].k
TheNotation == up_update.v[1].v.v[1].k
TheValue == up_update.v[1].v.v[1].v
Resolved == parse_dot_notation(up_cls, TheNotation)
SentValue == up_call.v[1].v.v[1].v

PushesToTypedArray ==
    /\ TheOperator \in {"$push", "$addToSet"}
    /\ Resolved.field.cls = "ArrayField"

HasEach(value) == value.t = "dict" /\ Has(value, "$each")

\* The field that the values are cleaned against, the values given and the
\* values sent.
CleaningField ==
    IF TheOperator = "$set" THEN Resolved.field ELSE Resolved.field.field
GivenItems ==
    IF PushesToTypedArray /\ HasEach(TheValue)
    THEN Get(TheValue, "$each").v ELSE <<TheValue>>
SentItems ==
    IF PushesToTypedArray /\ HasEach(TheValue)
    THEN Get(SentValue, "$each").v ELSE <<SentValue>>
ConvertedItems ==
    [i \in 1..Len(GivenItems) |-> convert(CleaningField, GivenItems[i])]
AllValid ==
    \A i \in 1..Len(GivenItems) :
        validate(CleaningField, ConvertedItems[i]) = "none"

\* C16: the values under $set, and the values (or the elements of $each)
\* under $push and $addToSet on a typed array field, reach the store
\* converted, and validated unless validation is bypassed; when one of them
\* fails validation and validation is not bypassed, ValidationError is
\* raised and nothing is sent to the store.
C16_UpdateValuesCleaned ==
    (/\ IsUpdate
     /\ Resolved.err = "none"
     /\ TheOperator = "$set" \/ PushesToTypedArray)
    => /\ (up_err = "none") <=> (up_call # Missing)
       /\ up_call # Missing
            => /\ SentItems = ConvertedItems
               /\ up_bypass \/ AllValid
       /\ (/\ \A i \in 1..Len(GivenItems) : ~IsRaise(ConvertedItems[i])
           /\ ~up_bypass
           /\ ~AllValid)
            => /\ up_err = "ValidationError"
               /\ up_call = Missing

\* An $each whose items were changed by conversion was sent, and a $set of
\* an invalid value was refused.
C16_Witness ==
    /\ IsUpdate
    /\ Resolved.err = "none"
    /\ PushesToTypedArray
    /\ HasEach(TheValue)
    /\ ~up_bypass
    /\ up_call # Missing
    /\ SentItems # GivenItems
    /\ Len(SentItems) = 2

\* The kind of field that each of the checked operators asks for.
RequiredKind ==
    CASE TheOperator \in {"$inc", "$mul"} -> {"NumberField", "IntField", "FloatField"}
      [] TheOperator \in {"$pop", "$pull", "$pullAll"} -> {"ListField", "ArrayField"}
      [] TheOperator = "$currentDate" -> {"DateTimeField"}
      [] OTHER -> {Resolved.field.cls}

\* C17: for $inc, $mul, $pop, $pull, $pullAll, $currentDate, $min, $max,
\* $rename and $unset a path that resolves is only checked for its kind: a
\* field of the wrong kind raises ValidationError, and otherwise the update
\* is sent as it was given.
C17_OtherOperatorsPathChecked ==
    (/\ IsUpdate
     /\ TheOperator \in {"$inc", "$mul", "$pop", "$pull", "$pullAll",
                         "$currentDate", "$min", "$max", "$rename", "$unset"}
     /\ Resolved.err = "none")
    => IF Resolved.field.cls \in RequiredKind
       THEN up_err = "none" /\ up_call = up_update
       ELSE up_err = "ValidationError" /\ up_call = Missing

\* $mul on a text field was refused.
C17_Witness ==
    /\ IsUpdate
    /\ TheOperator = "$mul"
    /\ Resolved.err = "none"
    /\ Resolved.field.cls = "StringField"
    /\ up_err = "ValidationError"
    /\ up_call = Missing

\* C18: a path that names a field the schema does not declare only logs a
\* warning: the update is not refused and reaches the store unchanged, for
\* every operator.
C18_UndeclaredOnlyWarns ==
    (/\ IsUpdate
     /\ TheOperator \in {"$set", "$push", "$addToSet", "$pop", "$pull",
                         "$pullAll", "$inc", "$mul", "$currentDate",
                         "$min", "$max", "$rename", "$unset"}
     /\ Resolved.warn # <<>>)
    => /\ up_warn = Resolved.warn
       /\ up_err = "none"
       /\ up_call = up_update

----------------------------------------------------------------------------
\* Properties of dot notation parsing (specification SpecPath)

\* What the keys before position n resolve to, and the keys after it.
Before(n) == parse_dot_notation("MainDotNotationModel", SubSeq(pt_name, 1, n - 1))
After(n) == SubSeq(pt_name, n + 1, Len(pt_name))

\* C19: at an embedded field, an identifier that names a declared field of
\* the embedded model goes on with that field ('f2.f1' is the text field of
\* the embedded model), and an identifier that names no declared field logs
\* a 'not defined' warning and makes the whole notation an AnyField,
\* without an error.
C19_EmbeddedPath ==
    pt_done =>
        /\ \A n \in 1..Len(pt_name) :
              (/\ Before(n).err = "none"
               /\ Before(n).field.cls = "EmbeddedField"
               /\ isidentifier(pt_name[n]))
              => LET model == Before(n).field.model
                     key == pt_name[n][1]
                 IN IF key \in FieldNames(model)
                    THEN LET rest == parse_keys(FieldOf(model, key), After(n))
                         IN /\ pt_field = rest.field
                            /\ pt_err = rest.err
                            /\ pt_warn = rest.warn
                    ELSE /\ pt_err = "none"
                         /\ pt_field.cls = "AnyField"
                         /\ pt_warn = <<[key |-> key, model |-> model]>>
        /\ pt_name = <<<<"f2">>, <<"f1">>>>
              => pt_err = "none" /\ pt_field.cls = "StringField"
        /\ pt_name = <<<<"f3">>, <<"0">>, <<"f2">>>>
              => pt_err = "none" /\ pt_field.cls = "ArrayField"

\* 'f2.foo.f1' gave an AnyField and the warning for 'foo'.
C19_Witness ==
    /\ pt_done
    /\ pt_name = <<<<"f2">>, <<"foo">>, <<"f1">>>>
    /\ pt_field.cls = "AnyField"
    /\ pt_err = "none"
    /\ pt_warn = <<[key |-> "foo", model |-> "SubDotNotationModel"]>>

\* A numeric index, '$', '$[]' and '$[foobar]'.
IndexOrPlaceholder ==
    {<<"0">>, <<"$">>, <<"$", "[", "]">>, <<"$", "[", "foobar", "]">>}

\* C20: at a plain list field, a numeric index or a positional placeholder
\* gives an AnyField and no error; any other key is a parse error.
C20_PlainListPath ==
    pt_done =>
        \A n \in 1..Len(pt_name) :
            (/\ Before(n).err = "none"
             /\ Before(n).field.cls = "ListField")
            => IF pt_name[n] \in IndexOrPlaceholder
               THEN pt_err = "none" /\ pt_field.cls = "AnyField"
               ELSE pt_field = Missing /\ pt_err = "ValueError"

\* 'f2.f3.$' gave an AnyField.
C20_Witness ==
    /\ pt_done
    /\ pt_name = <<<<"f2">>, <<"f3">>, <<"$">>>>
    /\ pt_field.cls = "AnyField"
    /\ pt_err = "none"

\* The keys that are identifiers: the field names and 'foo'.
IdentifierKeys ==
    {<<f>> : f \in FieldNames("MainDotNotationModel")} \cup {<<"foo">>}

\* C21 as stated: at a plain dict field one identifier is accepted and gives
\* an AnyField, a key that is no identifier is a parse error, and so is a
\* notation that goes on after the identifier.
C21_DictOneLevelOnly ==
    pt_done =>
        \A n \in 1..Len(pt_name) :
            (/\ Before(n).err = "none"
             /\ Before(n).field.cls = "DictField")
            => IF pt_name[n] \in IdentifierKeys /\ After(n) = <<>>
               THEN pt_err = "none" /\ pt_field.cls = "AnyField"
               ELSE pt_field = Missing /\ pt_err = "ValueError"

\* C21 (amended): at a plain dict field the next key decides: an identifier
\* makes the whole notation an AnyField, whatever keys follow it, and a key
\* that is no identifier is a parse error.
C21_DictFirstKey ==
    pt_done =>
        \A n \in 1..Len(pt_name) :
            (/\ Before(n).err = "none"
             /\ Before(n).field.cls = "DictField")
            => IF pt_name[n] \in IdentifierKeys
               THEN pt_err = "none" /\ pt_warn = <<>> /\ pt_field.cls = "AnyField"
               ELSE pt_field = Missing /\ pt_err = "ValueError"

\* 'f4.foo.$a' went two keys into the dict and gave an AnyField.
C21_Witness ==
    /\ pt_done
    /\ pt_name = <<<<"f4">>, <<"foo">>, <<"$", "a">>>>
    /\ pt_err = "none"
    /\ pt_field.cls = "AnyField"

\* C22: at an array field an index or a placeholder goes on with the item
\* field, so that as many of them as there are array levels reach the
\* innermost item field; an identifier at an array field, an index or a
\* placeholder at an embedded field, any key at a text or int field, and a
\* key that is neither an identifier nor an index nor a placeholder are
\* parse errors.
C22_ArrayPath ==
    pt_done =>
        /\ \A n \in 1..Len(pt_name) :
              Before(n).err = "none" =>
                 LET field == Before(n).field
                     key == pt_name[n]
                 IN /\ field.cls = "ArrayField" =>
                          IF key \in IndexOrPlaceholder
                          THEN LET rest == parse_keys(field.field, After(n))
                               IN /\ pt_field = rest.field
                                  /\ pt_err = rest.err
                                  /\ pt_warn = rest.warn
                          ELSE pt_field = Missing /\ pt_err = "ValueError"
                    /\ (field.cls = "EmbeddedField" /\ key \notin IdentifierKeys)
                          => pt_field = Missing /\ pt_err = "ValueError"
                    /\ field.cls \in {"StringField", "IntField"}
                          => pt_field = Missing /\ pt_err = "ValueError"
        /\ pt_name = <<<<"f7">>, <<"0">>>>
              => pt_err = "none" /\ pt_field.cls = "ArrayField"
        /\ pt_name = <<<<"f7">>, <<"$", "[", "]">>, <<"0">>>>
              => /\ pt_err = "none"
                 /\ pt_field = NewEmbeddedField("SubDotNotationModel")
        /\ pt_name = <<<<"f2">>, <<"f2">>, <<"$">>>>
              => pt_err = "none" /\ pt_field.cls = "IntField"

\* 'f7.0.$' went through both array levels to the embedded item field.
C22_Witness ==
    /\ pt_done
    /\ pt_name = <<<<"f7">>, <<"0">>, <<"$">>>>
    /\ pt_err = "none"
    /\ pt_field = NewEmbeddedField("SubDotNotationModel")

----------------------------------------------------------------------------
\* Properties of the document instance of Post (specification SpecPost)

\* The sets of _combine_tracked_fields() of the post.
PostModified == combine_tracked_fields(inst)[1]
PostDeleted == combine_tracked_fields(inst)[2]

\* The set that the last statement on a nested instance is reported in.
ReportedIn(opname) ==
    IF opname \in {"sub.setattr", "item.setattr"} THEN PostModified ELSE PostDeleted

\* C23 as stated: after a field of the cached nested instance of user, or of
\* a cached element of comments, was assigned or deleted, the set of the root
\* holds a path for it: the dotted path of the field, or the path of the
\* containing field where that was assigned or deleted as a whole.
C23_NestedChangesCombined ==
    /\ (op.name \in {"sub.setattr", "sub.delattr"} /\ err = "none")
         => \E path \in ReportedIn(op.name) :
               path \in {<<"user">>, <<"user", op.field>>}
    /\ (op.name \in {"item.setattr", "item.delattr"} /\ err = "none")
         => \E path \in ReportedIn(op.name) : path[1] = "comments"

\* C23 (amended): the change on the cached nested instance of the embedded
\* field is covered by a path of the root's set; a change on an element of
\* the array of embedded documents is in the element's own tracker only, and
\* no path of the root's sets ever leads into the array.
C23_EmbeddedChangesCombined ==
    /\ (op.name \in {"sub.setattr", "sub.delattr"} /\ err = "none")
         => \E path \in ReportedIn(op.name) :
               path \in {<<"user">>, <<"user", op.field>>}
    /\ \A path \in PostModified \cup PostDeleted :
          path[1] = "comments" => path = <<"comments">>
    /\ (op.name \in {"item.setattr", "item.delattr"} /\ err = "none")
         => \E k \in 1..Len(inst.cached["comments"].v) :
               LET item == inst.cached["comments"].v[k]
               IN op.field \in Val(item.modified_fields) \cup Val(item.deleted_fields)

\* C23 witness: the content of a cached comment was assigned, the first
\* name of the cached user was assigned before, and the sets of the root
\* hold the path into user and nothing of comments.
C23_Witness ==
    /\ op.name = "item.setattr"
    /\ err = "none"
    /\ Val(inst.cached["comments"].v[1].modified_fields) = {"content"}
    /\ PostModified = {<<"user", "first_name">>}
    /\ PostDeleted = {}

----------------------------------------------------------------------------
\* Properties of the insert and replace methods (specification SpecWrite)

\* What convert and validate of the root field give for each document.
Converted(k) == convert(RootField("Post"), wr_docs[k])

FailsValidation(k) ==
    /\ ~IsRaise(Converted(k))
    /\ validate(RootField("Post"), Converted(k)) = "ValidationError"

\* The document the method stops at: the first one whose conversion raises
\* or, without bypass, whose validation raises.
Stops(k) == IsRaise(Converted(k)) \/ (~wr_bypass /\ FailsValidation(k))

\* C24: without bypass, when a document fails validation (and none before it
\* stops the method) ValidationError is raised; whenever anything is raised
\* no call is made on the collection, whatever documents came before; with
\* bypass no ValidationError is raised, and when every document converts the
\* method sends the converted documents, those that validation rejects too.
C24_InvalidNeverSent ==
    wr_done =>
        /\ \A k \in 1..Len(wr_docs) :
              (~wr_bypass /\ FailsValidation(k) /\ \A j \in 1..(k - 1) : ~Stops(j))
              => wr_err = "ValidationError" /\ wr_call = Missing
        /\ wr_err # "none" => wr_call = Missing
        /\ wr_bypass =>
              /\ wr_err # "ValidationError"
              /\ (\A k \in 1..Len(wr_docs) : ~IsRaise(Converted(k)))
                   => /\ wr_err = "none"
                      /\ wr_call # Missing
                      /\ wr_call.op = wr_op
                      /\ wr_call.docs = [k \in 1..Len(wr_docs) |-> Converted(k)]

\* C24 witness: insert_many without bypass was given a valid document and
\* then one that fails validation, raised ValidationError and sent nothing.
C24_Witness ==
    /\ wr_done
    /\ wr_op = "insert_many"
    /\ ~wr_bypass
    /\ Len(wr_docs) = 2
    /\ ~Stops(1)
    /\ FailsValidation(2)
    /\ wr_err = "ValidationError"
    /\ wr_call = Missing

----------------------------------------------------------------------------
\* Properties of switch_db and switch_collection (specification SpecSwitch)

\* What User.get_collection() returns in the state before a step, and in
\* the state after it.
BoundBefore == IF sw_coll = Missing THEN Coll(sw_db, "users") ELSE sw_coll
BoundAfter == get_collection(sw_db', sw_coll', FALSE).ret

\* C25: a block that is entered binds the model to the collection given to
\* switch_collection, or to the database given to switch_db and its
\* collection of the same name; when the block is left, normally or by an
\* exception, get_collection() returns the collection that it returned
\* before the block was entered, and after a switch_db block get_db() the
\* database of before.
C25_SwitchRestores ==
    [][/\ Len(sw_stack') > Len(sw_stack)
            => LET frame == sw_stack'[Len(sw_stack')]
                   given == sw_op'.arg
               IN /\ frame.prev_coll = BoundBefore
                  /\ frame.prev_db = sw_db
                  /\ frame.kind = "switch_collection"
                       => /\ sw_db' = sw_db
                          /\ BoundAfter = IF given.t = "coll" THEN given
                                          ELSE Coll(sw_db, given.v)
                  /\ frame.kind = "switch_db"
                       => /\ sw_db' = given
                          /\ BoundAfter = Coll(given, BoundBefore.name)
       /\ Len(sw_stack') < Len(sw_stack)
            => LET frame == sw_stack[Len(sw_stack)]
               IN /\ sw_coll' # Missing
                  /\ BoundAfter = frame.prev_coll
                  /\ frame.kind = "switch_db" => sw_db' = frame.prev_db
      ]_vars

\* C25 witness: a switch_db block that had bound the model to the other
\* database was left by an exception, and the model is bound as before.
C25_Witness ==
    /\ sw_op = SwOp("exit", "switch_db", TRUE)
    /\ sw_err = "BodyError"
    /\ sw_stack = <<>>
    /\ sw_db = 1
    /\ sw_coll = Coll(1, "members")

----------------------------------------------------------------------------
\* Properties of the document instance of AliasMain (specification SpecAlias)

\* The store keys of the fields of a model.
StoreKeys(model) == {field_name(model, name) : name \in FieldNames(model)}

\* Whether a path of an update names every field by its store key.
ByStoreKeys(path) ==
    /\ path[1] \in StoreKeys("AliasMain")
    /\ Len(path) > 1 => path[2] \in StoreKeys("AliasSub")

\* C28: a save() without full_update of the persisted document raises
\* nothing, and the paths of its $set and $unset name the fields by their
\* store keys (every assignment before it was one of a valid value).
C28_AliasSavedByStoreKey ==
    (op.name = "save" /\ ~op.full)
        => /\ err = "none"
           /\ \A item \in call.set : ByStoreKeys(item[1])
           /\ \A path \in call.unset : ByStoreKeys(path)

----------------------------------------------------------------------------
\* Properties of the logger (specification SpecLog)

\* C30: whatever the threads do, the default logger never has more than one
\* handler, and a logger that set_logger installed is never replaced by the
\* default logger.
C30_OneHandlerAndCustomKept ==
    /\ [](lg_handlers <= 1)
    /\ [][lg_logger = "custom" => lg_logger' = "custom"]_vars

=============================================================================
